---------------------------- MODULE Spec2Model ----------------------------
(***************************************************************************)
(* A model of the Kaleidoscope JIT driver of src/src: the lexer            *)
(* (lexer.cpp), the recursive-descent parser (parser.cpp), the lowering of *)
(* the AST into the current module (ast.cpp, codegen.cpp) and the          *)
(* top-level dispatch loop with its JIT hand-over (main.cpp).              *)
(*                                                                         *)
(* Characters are one-character strings, the standard input is a sequence  *)
(* of characters, identifiers are sequences of characters.  A token is     *)
(* either the name of a Token enumerator ("tok_def", ...) or the character *)
(* itself (the code returns its ASCII value).                              *)
(***************************************************************************)
EXTENDS Integers, Sequences, FiniteSets, TLC

VARIABLES
    input,          \* the characters standard input will deliver
    ipos,           \* how many of them getchar() has delivered
    LastChar,       \* lexer.cpp:12   static int LastChar
    IdentifierStr,  \* lexer.cpp:7
    NumVal,         \* lexer.cpp:8
    CurTok,         \* lexer.cpp:9
    ntok,           \* history: number of getNextToken() calls so far
    prevLex,        \* history: the lexer state before the last getNextToken()
    pc,             \* where main() is: "start", "loop", "done", "exit1", "crashed",
                    \* "hung" (in native code that does not return)
    BinopPrecedence,\* parser.cpp:99
    TheModule,      \* codegen.cpp:24 (with TheContext and Builder)
    FunctionProtos, \* codegen.cpp:26
    NamedValues,    \* codegen.cpp:25
    TheJIT,         \* codegen.cpp:27
    nextRT,         \* the id the next createResourceTracker() returns
    handled,        \* history: what the last dispatch iteration did
    trace,          \* history: the events of the last dispatch iteration, in order
    lowerings,      \* history: per name, the prototypes handed to the lowering, in order
    definitions     \* history: per name, the definition whose code the JIT holds

lexvars == <<ipos, LastChar, IdentifierStr, NumVal, CurTok, ntok, prevLex>>
cgvars  == <<BinopPrecedence, TheModule, FunctionProtos, NamedValues, TheJIT, nextRT>>
vars    == <<input, lexvars, pc, cgvars, handled, trace, lowerings, definitions>>

-----------------------------------------------------------------------------
(* Characters *)

EOF == "EOF"

Lower == {"a","b","c","d","e","f","g","h","i","j","k","l","m",
          "n","o","p","q","r","s","t","u","v","w","x","y","z"}
Upper == {"A","B","C","D","E","F","G","H","I","J","K","L","M",
          "N","O","P","Q","R","S","T","U","V","W","X","Y","Z"}
Digits == {"0","1","2","3","4","5","6","7","8","9"}

isspace(c) == c \in {" ", "\t", "\n", "\r", "\f"}
isalpha(c) == c \in Lower \cup Upper
isdigit(c) == c \in Digits
isalnum(c) == isalpha(c) \/ isdigit(c)

\* __isascii(tok): the Token enumerators are negative, characters are 0..127
isascii(tok) == tok \notin {"tok_eof", "tok_def", "tok_extern", "tok_identifier",
                            "tok_number", "tok_if", "tok_then", "tok_else",
                            "tok_for", "tok_in", "tok_unary", "tok_binary",
                            "tok_var"}

DigitVal(c) == CASE c = "0" -> 0 [] c = "1" -> 1 [] c = "2" -> 2 [] c = "3" -> 3
                 [] c = "4" -> 4 [] c = "5" -> 5 [] c = "6" -> 6 [] c = "7" -> 7
                 [] c = "8" -> 8 [] c = "9" -> 9

-----------------------------------------------------------------------------
(* Lexer: lexer.cpp.  A lexer state is a record L of the lexer's variables. *)

\* (.log collects the LogError lines a handler writes, .BinopPrecedence is the
\* precedence table, which GetTokPrecedence reads with operator[])
LexState == [ipos |-> ipos, LastChar |-> LastChar, IdentifierStr |-> IdentifierStr,
             NumVal |-> NumVal, CurTok |-> CurTok, ntok |-> ntok,
             log |-> <<>>, BinopPrecedence |-> BinopPrecedence]

\* LastChar = getchar(): the next character, EOF once the input is exhausted
getchar(L) ==
    IF L.ipos < Len(input)
    THEN [L EXCEPT !.LastChar = input[L.ipos + 1], !.ipos = L.ipos + 1]
    ELSE [L EXCEPT !.LastChar = EOF]

RECURSIVE SkipSpaces(_)
SkipSpaces(L) == IF isspace(L.LastChar) THEN SkipSpaces(getchar(L)) ELSE L

RECURSIVE ReadIdentifier(_)
ReadIdentifier(L) ==
    LET L1 == getchar(L) IN
    IF isalnum(L1.LastChar)
    THEN ReadIdentifier([L1 EXCEPT !.IdentifierStr = Append(@, L1.LastChar)])
    ELSE L1

\* do { NumStr += LastChar; LastChar = getchar(); } while (isdigit || '.')
RECURSIVE ReadNumStr(_, _)
ReadNumStr(L, NumStr) ==
    LET s  == Append(NumStr, L.LastChar)
        L1 == getchar(L) IN
    IF isdigit(L1.LastChar) \/ L1.LastChar = "."
    THEN ReadNumStr(L1, s)
    ELSE [L |-> L1, NumStr |-> s]

RECURSIVE DigitsValue(_)
DigitsValue(ds) ==
    IF ds = <<>> THEN 0
    ELSE 10 * DigitsValue(SubSeq(ds, 1, Len(ds) - 1)) + DigitVal(ds[Len(ds)])

RECURSIVE StripZeros(_)
StripZeros(ds) ==
    IF ds # <<>> /\ ds[Len(ds)] = "0" THEN StripZeros(SubSeq(ds, 1, Len(ds) - 1)) ELSE ds

\* the index of the first "." of s at or after i, Len(s)+1 when there is none
RECURSIVE DotFrom(_, _)
DotFrom(s, i) == IF i > Len(s) \/ s[i] = "." THEN i ELSE DotFrom(s, i + 1)

\* strtod(NumStr, 0): the longest prefix digits [. digits] is converted, the
\* rest ignored; the value is whole + 0.frac, frac without trailing zeros.
strtod(NumStr) ==
    LET d1 == DotFrom(NumStr, 1)
        d2 == DotFrom(NumStr, d1 + 1) IN
    [whole |-> DigitsValue(SubSeq(NumStr, 1, d1 - 1)),
     frac  |-> StripZeros(SubSeq(NumStr, d1 + 1, d2 - 1))]

Num(n) == [whole |-> n, frac |-> <<>>]

\* skip to the end of a comment line
RECURSIVE SkipComment(_)
SkipComment(L) ==
    LET L1 == getchar(L) IN
    IF L1.LastChar # EOF /\ L1.LastChar # "\n" /\ L1.LastChar # "\r"
    THEN SkipComment(L1) ELSE L1

s_def    == <<"d","e","f">>
s_extern == <<"e","x","t","e","r","n">>
s_if     == <<"i","f">>
s_then   == <<"t","h","e","n">>
s_else   == <<"e","l","s","e">>
s_for    == <<"f","o","r">>
s_in     == <<"i","n">>
s_binary == <<"b","i","n","a","r","y">>
s_unary  == <<"u","n","a","r","y">>
s_var    == <<"v","a","r">>

\* the keyword comparisons of gettok, lexer.cpp:27-48
Keyword(s) ==
    CASE s = s_def    -> "tok_def"
      [] s = s_extern -> "tok_extern"
      [] s = s_if     -> "tok_if"
      [] s = s_then   -> "tok_then"
      [] s = s_else   -> "tok_else"
      [] s = s_for    -> "tok_for"
      [] s = s_in     -> "tok_in"
      [] OTHER        -> "tok_identifier"

RECURSIVE gettok(_)

\* gettokRest reporting the end of the input once only: the call after it
\* returns the EOF character like any other character
gettokRest_EofOnce(wasComment, L1) ==
    IF wasComment /\ L1.LastChar # EOF THEN gettok(L1)
    ELSE IF L1.LastChar = EOF /\ L1.CurTok # "tok_eof" THEN [L |-> L1, tok |-> "tok_eof"]
    ELSE [L |-> getchar(L1), tok |-> L1.LastChar]

\* lexer.cpp:63-81: after the comment, if there was one
gettokRest(wasComment, L1) ==
    IF wasComment /\ L1.LastChar # EOF THEN gettok(L1)
    ELSE IF L1.LastChar = EOF THEN [L |-> L1, tok |-> "tok_eof"]
    ELSE [L |-> getchar(L1), tok |-> L1.LastChar]

\* lexer.cpp:27-48
gettokIdentifier(L1) == [L |-> L1, tok |-> Keyword(L1.IdentifierStr)]

\* lexer.cpp:58-59
gettokNumber(r) == [L |-> [r.L EXCEPT !.NumVal = strtod(r.NumStr)], tok |-> "tok_number"]

\* gettok() after the white space: L.LastChar is the token's first character
gettokAt(L) ==
    IF isalpha(L.LastChar)
    THEN gettokIdentifier(ReadIdentifier([L EXCEPT !.IdentifierStr = <<L.LastChar>>]))
    ELSE IF isdigit(L.LastChar) \/ L.LastChar = "." THEN gettokNumber(ReadNumStr(L, <<>>))
    ELSE gettokRest(L.LastChar = "#", IF L.LastChar = "#" THEN SkipComment(L) ELSE L)

\* gettok(): the lexer state after the scan, with the token in .tok
gettok(L0) == gettokAt(SkipSpaces(L0))

\* CurTok = <the token>
SetCurTok(r) == [r.L EXCEPT !.CurTok = r.tok, !.ntok = @ + 1]

\* getNextToken(): CurTok = gettok()
getNextToken(L) == SetCurTok(gettok(L))

-----------------------------------------------------------------------------
(* AST: ast.h.  Every node is a record with a field kind. *)

Null == [kind |-> "null"]

NumberExprAST(V)            == [kind |-> "Number", Val |-> V]
VariableExprAST(N)          == [kind |-> "Variable", Name |-> N]
BinaryExprAST(op, lhs, rhs) == [kind |-> "Binary", Op |-> op, LHS |-> lhs, RHS |-> rhs]
UnaryExprAST(opc, operand)  == [kind |-> "Unary", Opcode |-> opc, Operand |-> operand]
CallExprAST(callee, args)   == [kind |-> "Call", Callee |-> callee, Args |-> args]
IfExprAST(c, t, e)          == [kind |-> "If", Cond |-> c, Then |-> t, Else |-> e]
ForExprAST(v, s, e, st, b)  == [kind |-> "For", VarName |-> v, Start |-> s, End |-> e,
                                Step |-> st, Body |-> b]
\* ast.h:59-69: VarNames is a sequence of [Name, Init], Init Null if absent
VarExprAST(varnames, body)  == [kind |-> "Var", VarNames |-> varnames, Body |-> body]
PrototypeAST(n, args, isop, prec) ==
    [kind |-> "Prototype", Name |-> n, Args |-> args, IsOperator |-> isop,
     Precedence |-> prec]
FunctionAST(proto, body)    == [kind |-> "Function", Proto |-> proto, Body |-> body]

isBinaryOp(P) == P.IsOperator /\ Len(P.Args) = 2
getOperatorName(P) == P.Name[Len(P.Name)]

s_anon_expr == <<"_","_","a","n","o","n","_","e","x","p","r">>

-----------------------------------------------------------------------------
(* Parser: parser.cpp.  A parse function takes the parser state S (the     *)
(* lexer state with the log and the precedence table) and returns the      *)
(* state after it with the node in .ast, Null for nullptr.                 *)

DefaultBinaryPrecedence == 20
MinBinaryPrecedence == 1
MaxBinaryPrecedence == 100

LogError(S, Str) == [S EXCEPT !.log = Append(@, [ev |-> "LogError", msg |-> Str])]

Failed(S)  == [S |-> S, ast |-> Null]
Node(S, n) == [S |-> S, ast |-> n]

\* int TokPrec = BinopPrecedence[CurTok] default-inserts 0 for a new key
GetTokPrecedence(S) ==
    IF ~isascii(S.CurTok) THEN [S |-> S, prec |-> -1]
    ELSE LET tbl == IF S.CurTok \in DOMAIN S.BinopPrecedence
                    THEN S.BinopPrecedence
                    ELSE S.BinopPrecedence @@ (S.CurTok :> 0)
             TokPrec == tbl[S.CurTok] IN
         [S |-> [S EXCEPT !.BinopPrecedence = tbl],
          prec |-> IF TokPrec <= 0 THEN -1 ELSE TokPrec]

RECURSIVE ParseExpression(_)
RECURSIVE ParseUnary(_)
RECURSIVE ParsePrimary(_)
RECURSIVE ParseBinOpRHS(_, _, _)
RECURSIVE ParseArgs(_, _)

ParseNumberExpr(S) == Node(getNextToken(S), NumberExprAST(S.NumVal))

\* parser.cpp:28-36, V the result of ParseExpression()
ParseParenExprClose(V) ==
    IF V.ast = Null THEN V
    ELSE IF V.S.CurTok # ")" THEN Failed(LogError(V.S, "expected ')' "))
    ELSE Node(getNextToken(V.S), V.ast)

ParseParenExpr(S) == ParseParenExprClose(ParseExpression(getNextToken(S)))

\* parser.cpp:51-65, Arg the result of ParseExpression()
ParseArgsNext(Arg, Args) ==
    IF Arg.ast = Null THEN [ok |-> FALSE, S |-> Arg.S]
    ELSE IF Arg.S.CurTok = ")"
         THEN [ok |-> TRUE, S |-> getNextToken(Arg.S), Args |-> Append(Args, Arg.ast)]
    ELSE IF Arg.S.CurTok = "," THEN ParseArgs(getNextToken(Arg.S), Append(Args, Arg.ast))
    ELSE [ok |-> FALSE, S |-> LogError(Arg.S, "Expected ')' or ',' in argument list")]

\* the while (true) loop of ParseIdentifierOrCallExpr: .ok and the arguments
ParseArgs(S, Args) == ParseArgsNext(ParseExpression(S), Args)

\* parser.cpp:68, A the outcome of the argument loop
ParseCallExpr(IdName, A) ==
    IF ~A.ok THEN Failed(A.S) ELSE Node(A.S, CallExprAST(IdName, A.Args))

\* parser.cpp:46-72, S1 the state after the identifier is consumed
ParseIdentifierRest(IdName, S1) ==
    IF S1.CurTok = "(" THEN ParseCallExpr(IdName, ParseArgs(getNextToken(S1), <<>>))
    ELSE Node(S1, VariableExprAST(IdName))

ParseIdentifierOrCallExpr(S) == ParseIdentifierRest(S.IdentifierStr, getNextToken(S))

\* parser.cpp:289-293
ParseIfExprEnd(condn, then_body, else_body) ==
    IF else_body.ast = Null THEN else_body
    ELSE Node(else_body.S, IfExprAST(condn, then_body, else_body.ast))

\* parser.cpp:279-288
ParseIfExprElse(condn, then_body) ==
    IF then_body.ast = Null THEN then_body
    ELSE IF then_body.S.CurTok # "tok_else"
         THEN Failed(LogError(then_body.S, "'else' expected after 'if - then' !"))
    ELSE ParseIfExprEnd(condn, then_body.ast, ParseExpression(getNextToken(then_body.S)))

\* parser.cpp:269-278
ParseIfExprThen(condn) ==
    IF condn.ast = Null THEN condn
    ELSE IF condn.S.CurTok # "tok_then" THEN Failed(LogError(condn.S, "Expected 'then' !"))
    ELSE ParseIfExprElse(condn.ast, ParseExpression(getNextToken(condn.S)))

ParseIfExpr(S) == ParseIfExprThen(ParseExpression(getNextToken(S)))

\* parser.cpp:340-343
ParseForExprEnd(IdName, Start, End, Step, Body) ==
    IF Body.ast = Null THEN Body
    ELSE Node(Body.S, ForExprAST(IdName, Start, End, Step, Body.ast))

\* parser.cpp:330-339, Step the optional step (.has tells whether one was parsed)
ParseForExprIn(IdName, Start, End, Step) ==
    IF Step.has /\ Step.ast = Null THEN Failed(Step.S)
    ELSE IF Step.S.CurTok # "tok_in" THEN Failed(LogError(Step.S, "expected 'in' after for"))
    ELSE ParseForExprEnd(IdName, Start, End, Step.ast, ParseExpression(getNextToken(Step.S)))

\* [S, ast] with the flag .has
WithStep(V, has) == [S |-> V.S, ast |-> V.ast, has |-> has]

\* parser.cpp:322-329
ParseForExprStep(IdName, Start, End) ==
    IF End.ast = Null THEN End
    ELSE ParseForExprIn(IdName, Start, End.ast,
             IF End.S.CurTok = ","
             THEN WithStep(ParseExpression(getNextToken(End.S)), TRUE)
             ELSE WithStep(Node(End.S, Null), FALSE))

\* parser.cpp:312-321
ParseForExprTo(IdName, Start) ==
    IF Start.ast = Null THEN Start
    ELSE IF Start.S.CurTok # ","
         THEN Failed(LogError(Start.S, "expected ',' after for start value"))
    ELSE ParseForExprStep(IdName, Start.ast, ParseExpression(getNextToken(Start.S)))

\* parser.cpp:306-311
ParseForExprFrom(IdName, S2) ==
    IF S2.CurTok # "=" THEN Failed(LogError(S2, "expected '=' after for "))
    ELSE ParseForExprTo(IdName, ParseExpression(getNextToken(S2)))

\* parser.cpp:299-304
ParseForExprId(S1) ==
    IF S1.CurTok # "tok_identifier" THEN Failed(LogError(S1, "expected identifier after for"))
    ELSE ParseForExprFrom(S1.IdentifierStr, getNextToken(S1))

ParseForExpr(S) == ParseForExprId(getNextToken(S))

ParsePrimary(S) ==
    CASE S.CurTok = "tok_identifier" -> ParseIdentifierOrCallExpr(S)
      [] S.CurTok = "tok_number"     -> ParseNumberExpr(S)
      [] S.CurTok = "("              -> ParseParenExpr(S)
      [] S.CurTok = "tok_if"         -> ParseIfExpr(S)
      [] S.CurTok = "tok_for"        -> ParseForExpr(S)
      [] OTHER -> Failed(LogError(S, "unknown token when expecting an expression"))

\* parser.cpp:125-128
ParseUnaryOperand(Opc, Operand) ==
    IF Operand.ast # Null THEN Node(Operand.S, UnaryExprAST(Opc, Operand.ast))
    ELSE Operand

ParseUnary(S) ==
    IF ~isascii(S.CurTok) \/ S.CurTok = "(" \/ S.CurTok = "," THEN ParsePrimary(S)
    ELSE ParseUnaryOperand(S.CurTok, ParseUnary(getNextToken(S)))

\* parser.cpp:148-153 and the next iteration of the loop
ParseBinOpRHSMerge(ExprPrec, BinOp, LHS, RHS) ==
    IF RHS.ast = Null THEN RHS
    ELSE ParseBinOpRHS(ExprPrec, BinaryExprAST(BinOp, LHS, RHS.ast), RHS.S)

\* ParseBinOpRHSNext never handing the right operand to a tighter operator
ParseBinOpRHSNext_NoPromotion(ExprPrec, TokPrec, BinOp, LHS, RHS, np) ==
    ParseBinOpRHSMerge(ExprPrec, BinOp, LHS, Node(np.S, RHS))

\* parser.cpp:145-147, np the outcome of the second GetTokPrecedence()
ParseBinOpRHSNext(ExprPrec, TokPrec, BinOp, LHS, RHS, np) ==
    ParseBinOpRHSMerge(ExprPrec, BinOp, LHS,
        IF TokPrec < np.prec THEN ParseBinOpRHS(TokPrec + 1, RHS, np.S)
        ELSE Node(np.S, RHS))

\* parser.cpp:144, 154-156
ParseBinOpRHSRight(ExprPrec, TokPrec, BinOp, LHS, RHS) ==
    IF RHS.ast = Null THEN RHS
    ELSE ParseBinOpRHSNext(ExprPrec, TokPrec, BinOp, LHS, RHS.ast, GetTokPrecedence(RHS.S))

\* parser.cpp:137-143, tp the outcome of GetTokPrecedence()
ParseBinOpRHSOp(ExprPrec, LHS, tp) ==
    IF tp.prec < ExprPrec THEN Node(tp.S, LHS)
    ELSE ParseBinOpRHSRight(ExprPrec, tp.prec, tp.S.CurTok, LHS,
                            ParseUnary(getNextToken(tp.S)))

ParseBinOpRHS(ExprPrec, LHS, S) == ParseBinOpRHSOp(ExprPrec, LHS, GetTokPrecedence(S))

\* parser.cpp:166-169
ParseExpressionRHS(LHS) ==
    IF LHS.ast # Null THEN ParseBinOpRHS(0, LHS.ast, LHS.S) ELSE LHS

ParseExpression(S) == ParseExpressionRHS(ParseUnary(S))

\* while (getNextToken() == tok_identifier) ArgNames.push_back(IdentifierStr)
RECURSIVE ParseArgNames(_, _)
ParseArgNamesNext(S1, ArgNames) ==
    IF S1.CurTok = "tok_identifier"
    THEN ParseArgNames(S1, Append(ArgNames, S1.IdentifierStr))
    ELSE [S |-> S1, ArgNames |-> ArgNames]

ParseArgNames(S, ArgNames) == ParseArgNamesNext(getNextToken(S), ArgNames)

\* NumVal < 1 || NumVal > 100
PrecedenceOutOfRange(V) ==
    \/ V.whole < MinBinaryPrecedence
    \/ V.whole > MaxBinaryPrecedence
    \/ (V.whole = MaxBinaryPrecedence /\ V.frac # <<>>)

\* parser.cpp:199-206, S2 the state after the operator character is consumed
PrototypeBinaryPrecedence(Op, S2) ==
    IF S2.CurTok = "tok_number" /\ PrecedenceOutOfRange(S2.NumVal)
    THEN [ok |-> FALSE, S |-> LogError(S2, "Precedence value must be in range 1...100")]
    ELSE [ok |-> TRUE, S |-> getNextToken(S2), FnName |-> Append(s_binary, Op), Kind |-> 2,
          BinaryPrecedence |-> IF S2.CurTok = "tok_number" THEN S2.NumVal.whole
                               ELSE DefaultBinaryPrecedence]

\* parser.cpp:190-196
PrototypeBinary(S1) ==
    IF ~isascii(S1.CurTok) THEN [ok |-> FALSE, S |-> LogError(S1, "Expected binary operator")]
    ELSE PrototypeBinaryPrecedence(S1.CurTok, getNextToken(S1))

\* parser.cpp:209-216
PrototypeUnary(S1) ==
    IF ~isascii(S1.CurTok) THEN [ok |-> FALSE, S |-> LogError(S1, "Expected unary operator")]
    ELSE [ok |-> TRUE, S |-> getNextToken(S1), FnName |-> Append(s_unary, S1.CurTok),
          Kind |-> 1, BinaryPrecedence |-> DefaultBinaryPrecedence]

\* the switch of ParsePrototype: .ok, the state, FnName, Kind, BinaryPrecedence
PrototypeHead(S) ==
    CASE S.CurTok = "tok_identifier" ->
            [ok |-> TRUE, S |-> getNextToken(S), FnName |-> S.IdentifierStr,
             Kind |-> 0, BinaryPrecedence |-> DefaultBinaryPrecedence]
      [] S.CurTok = "tok_binary" -> PrototypeBinary(getNextToken(S))
      [] S.CurTok = "tok_unary"  -> PrototypeUnary(getNextToken(S))
      [] OTHER -> [ok |-> FALSE, S |-> LogError(S, "Expected function name in prototype")]

\* parser.cpp:235-239, S1 the state after ')' is consumed
PrototypeEnd(h, ArgNames, S1) ==
    IF h.Kind # 0 /\ Len(ArgNames) # h.Kind
    THEN Failed(LogError(S1, "Invalid number of operands for operator"))
    ELSE Node(S1, PrototypeAST(h.FnName, ArgNames, h.Kind # 0, h.BinaryPrecedence))

\* parser.cpp:229-232, a the outcome of the argument-name loop
PrototypeClose(h, a) ==
    IF a.S.CurTok # ")" THEN Failed(LogError(a.S, "Expected ')' in prototype"))
    ELSE PrototypeEnd(h, a.ArgNames, getNextToken(a.S))

\* parser.cpp:222-228, h the outcome of the switch
PrototypeArgs(h) ==
    IF ~h.ok THEN Failed(h.S)
    ELSE IF h.S.CurTok # "(" THEN Failed(LogError(h.S, "Expected '(' in prototype"))
    ELSE PrototypeClose(h, ParseArgNames(h.S, <<>>))

ParsePrototype(S) == PrototypeArgs(PrototypeHead(S))

\* parser.cpp:250-255
ParseDefinitionEnd(Proto, E) ==
    IF E.ast # Null THEN Node(E.S, FunctionAST(Proto, E.ast)) ELSE E

\* parser.cpp:246-250
ParseDefinitionBody(Proto) ==
    IF Proto.ast = Null THEN Proto
    ELSE ParseDefinitionEnd(Proto.ast, ParseExpression(Proto.S))

ParseDefinition(S) == ParseDefinitionBody(ParsePrototype(getNextToken(S)))

ParseExtern(S) == ParsePrototype(getNextToken(S))

\* parser.cpp:350-356
ParseTopLevelExprEnd(E) ==
    IF E.ast # Null
    THEN Node(E.S, FunctionAST(PrototypeAST(s_anon_expr, <<>>, FALSE, 0), E.ast))
    ELSE E

ParseTopLevelExpr(S) == ParseTopLevelExprEnd(ParseExpression(S))

-----------------------------------------------------------------------------
(* Lowering: ast.cpp, codegen.cpp.                                         *)
(*                                                                         *)
(* The current module is a record: .live is FALSE when TheModule (and      *)
(* TheContext) is a moved-from, null unique_ptr; .fns maps the name of     *)
(* each function of the module to [Args, hasBody, refs, body]; .LastUnique *)
(* is the counter the module's symbol table uses to rename a global whose  *)
(* name is taken.  A lowering state G carries the globals the code         *)
(* generator reads and writes, the events it produces (.ev), the functions *)
(* the function being emitted calls (.refs), the stack-slot counter and    *)
(* .crashed, set when the code dereferences a null pointer.  .ub is the    *)
(* outcome chosen for the type-confused read of BinaryExprAST::codegen.    *)
(***************************************************************************)

NullModule  == [live |-> FALSE, fns |-> <<>>, LastUnique |-> 0]
EmptyModule == [live |-> TRUE, fns |-> <<>>, LastUnique |-> 0]

NoFn == <<>>     \* a null llvm::Function*: no function has the empty name
NullSlot == 0    \* a null llvm::AllocaInst*

UBOutcomes == {"crash", "garbage"}
s_garbage == <<"?">>

Event(G, e) == [G EXCEPT !.ev = Append(@, e)]
LogErrorV(G, Str) == Event(G, [ev |-> "LogError", msg |-> Str])
Crash(G) == [G EXCEPT !.crashed = TRUE]

DigitChar(k) == CASE k = 0 -> "0" [] k = 1 -> "1" [] k = 2 -> "2" [] k = 3 -> "3"
                  [] k = 4 -> "4" [] k = 5 -> "5" [] k = 6 -> "6" [] k = 7 -> "7"
                  [] k = 8 -> "8" [] k = 9 -> "9"

RECURSIVE DigitsOf(_)
DigitsOf(k) == IF k < 10 THEN <<DigitChar(k)>>
               ELSE Append(DigitsOf(k \div 10), DigitChar(k % 10))

\* the symbol table's renaming of a value whose name is taken: the name, a
\* separator ("." for a global, nothing for an argument) and a counter
\* incremented until the name is free
RECURSIVE UniqueName(_, _, _, _)
UniqueName(taken, name, sep, LastUnique) ==
    IF (name \o sep \o DigitsOf(LastUnique + 1)) \in taken
    THEN UniqueName(taken, name, sep, LastUnique + 1)
    ELSE [name |-> name \o sep \o DigitsOf(LastUnique + 1), LastUnique |-> LastUnique + 1]

\* Arg.setName(Args[Idx++]) for every argument, in order
RECURSIVE SetArgNames(_, _, _)
SetArgNamesUnique(Args, done, u) == SetArgNames(Args, Append(done, u.name), u.LastUnique)

SetArgNames(Args, done, LastUnique) ==
    IF Len(done) = Len(Args) THEN done
    ELSE IF Args[Len(done) + 1] \in {done[i] : i \in 1..Len(done)}
         THEN SetArgNamesUnique(Args, done,
                  UniqueName({done[i] : i \in 1..Len(done)}, Args[Len(done) + 1], <<>>,
                             LastUnique))
         ELSE SetArgNames(Args, Append(done, Args[Len(done) + 1]), LastUnique)

\* llvm::Function::Create(FT, ExternalLinkage, Name, TheModule.get()) and the
\* argument names; u is the name the module's symbol table gives the function
FunctionCreate(G, u, P) ==
    [G |-> [G EXCEPT !.TheModule.fns =
                        @ @@ (u.name :> [Args |-> SetArgNames(P.Args, <<>>, 0),
                                         hasBody |-> FALSE, refs |-> {}, body |-> Null,
                                         blocks |-> <<>>]),
                     !.TheModule.LastUnique = u.LastUnique],
     F |-> u.name]

\* PrototypeAST::codegen: a declaration in the current module; .F its name
PrototypeAST_codegen(G, P) ==
    IF ~G.TheModule.live THEN [G |-> Crash(G), F |-> NoFn]
    ELSE FunctionCreate(G,
             IF P.Name \in DOMAIN G.TheModule.fns
             THEN UniqueName(DOMAIN G.TheModule.fns, P.Name, <<".">>, G.TheModule.LastUnique)
             ELSE [name |-> P.Name, LastUnique |-> G.TheModule.LastUnique],
             P)

\* getFunction looking in the current module only
getFunction_ModuleOnly(G, Name) ==
    IF ~G.TheModule.live THEN [G |-> Crash(G), F |-> NoFn]
    ELSE IF Name \in DOMAIN G.TheModule.fns THEN
        [G |-> Event(G, [ev |-> "getFunction", name |-> Name, from |-> "module"]),
         F |-> Name]
    ELSE [G |-> Event(G, [ev |-> "getFunction", name |-> Name, from |-> "nowhere"]),
          F |-> NoFn]

\* getFunction: ast.cpp:298
getFunction(G, Name) ==
    IF ~G.TheModule.live THEN [G |-> Crash(G), F |-> NoFn]
    ELSE IF Name \in DOMAIN G.TheModule.fns THEN
        [G |-> Event(G, [ev |-> "getFunction", name |-> Name, from |-> "module"]),
         F |-> Name]
    ELSE IF Name \in DOMAIN G.FunctionProtos THEN
        PrototypeAST_codegen(
            Event(G, [ev |-> "getFunction", name |-> Name, from |-> "registry"]),
            G.FunctionProtos[Name])
    ELSE [G |-> Event(G, [ev |-> "getFunction", name |-> Name, from |-> "nowhere"]),
          F |-> NoFn]

\* NamedValues[Name]: operator[] default-inserts a null slot for a new key
NamedValuesAt(G, Name) ==
    IF Name \in DOMAIN G.NamedValues THEN G
    ELSE [G EXCEPT !.NamedValues = @ @@ (Name :> NullSlot)]

\* CreateEntryBlockAlloca: an alloca at the beginning of the entry block of
\* the function being emitted; .slot is its handle
CreateEntryBlockAlloca(G) ==
    [G |-> [G EXCEPT !.nextSlot = @ + 1,
                     !.blocks[1] = <<[op |-> "alloca", slot |-> G.nextSlot]>> \o @],
     slot |-> G.nextSlot]

\* llvm::Value*: a constant, an argument of the function, the result of an
\* instruction, or null
NullValue == [k |-> "null"]
ConstantFP(V) == [k |-> "const", Val |-> V]
Argument(i) == [k |-> "arg", i |-> i]

Val(G, v) == [G |-> G, val |-> TRUE, v |-> v]
NoVal(G) == [G |-> G, val |-> FALSE, v |-> NullValue]

\* the IRBuilder: an instruction is appended to the insert block G.cur of
\* the function being emitted, whose blocks are G.blocks (a block is named
\* by its index); an instruction with a result gets the next value id
Insert(G, I) == [G EXCEPT !.blocks[G.cur] = Append(@, I)]
Create(G, I) ==
    Val([Insert(G, I @@ [id |-> G.nextVal]) EXCEPT !.nextVal = @ + 1],
        [k |-> "val", id |-> G.nextVal])
SetInsertPoint(G, BB) == [G EXCEPT !.cur = BB]
CreateLoad(G, slot) == Create(G, [op |-> "load", slot |-> slot])
CreateStore(G, v, slot) == Insert(G, [op |-> "store", v |-> v, slot |-> slot])
CreateBinOp(G, op, L, R) == Create(G, [op |-> op, L |-> L, R |-> R])
CreateFCmpONE(G, v) == CreateBinOp(G, "fcmp one", v, ConstantFP(Num(0)))
CreateUIToFP(C) == Create(C.G, [op |-> "uitofp", v |-> C.v])
CreateBr(G, BB) == Insert(G, [op |-> "br", BB |-> BB])
CreateCondBr(G, c, T, F) == Insert(G, [op |-> "condbr", c |-> c, T |-> T, F |-> F])
CreatePHI(G, in) == Create(G, [op |-> "phi", in |-> in])
CreateRet(G, v) == Insert(G, [op |-> "ret", v |-> v])

\* Builder->CreateCall(F, ArgsV): the function being emitted calls F
CreateCall(G, F, ArgsV) ==
    Create([G EXCEPT !.refs = @ \cup {F}], [op |-> "call", F |-> F, Args |-> ArgsV])

BuiltinBinops == {"+", "-", "*", "/", "<"}

RECURSIVE codegen(_, _)
RECURSIVE codegenArgs(_, _, _, _)

\* ast.cpp:22
NumberExprAST_codegen(G, e) == Val(G, ConstantFP(e.Val))

\* ast.cpp:28-32, G1 the state after NamedValues[Name]
VariableLoad(G1, Name) ==
    IF G1.NamedValues[Name] = NullSlot
    THEN NoVal(Crash(LogErrorV(G1, "Unknown variable name")))  \* A->getAllocatedType()
    ELSE CreateLoad(G1, G1.NamedValues[Name])

VariableExprAST_codegen(G, e) == VariableLoad(NamedValuesAt(G, e.Name), e.Name)

\* ast.cpp:48-52
AssignStore(G1, LHSName, v) ==
    IF G1.NamedValues[LHSName] = NullSlot
    THEN NoVal(LogErrorV(G1, "Unknown variable name"))
    ELSE Val(CreateStore(G1, v, G1.NamedValues[LHSName]), v)

\* ast.cpp:44-48, R the outcome of RHS->codegen()
AssignValue(R, LHSName) ==
    IF R.G.crashed \/ ~R.val THEN NoVal(R.G)
    ELSE AssignStore(NamedValuesAt(R.G, LHSName), LHSName, R.v)

\* the '=' case; LHSE is the static_cast of LHS, never null: when LHS is not
\* a variable, LHSE->getName() reads another node's memory as a string
AssignExpr_codegen(G, e) ==
    IF e.LHS.kind # "Variable" /\ G.ub = "crash" THEN NoVal(Crash(G))
    ELSE AssignValue(codegen(G, e.RHS),
                     IF e.LHS.kind = "Variable" THEN e.LHS.Name ELSE s_garbage)

\* ast.cpp:80-84
BinaryCall(f, L, R) ==
    IF f.G.crashed THEN NoVal(f.G)
    ELSE IF f.F = NoFn THEN NoVal(Crash(f.G))    \* assert(F), CreateCall(null)
    ELSE CreateCall(f.G, f.F, <<L, R>>)

\* the switch of ast.cpp:62-77 with '-' lowered as '+'
BuiltinBinop_SubAsAdd(G, Op, L, R) ==
    CASE Op = "+" -> CreateBinOp(G, "fadd", L, R)
      [] Op = "-" -> CreateBinOp(G, "fadd", L, R)
      [] Op = "*" -> CreateBinOp(G, "fmul", L, R)
      [] Op = "/" -> CreateBinOp(G, "fdiv", L, R)
      [] Op = "<" -> CreateUIToFP(CreateBinOp(G, "fcmp ult", L, R))

\* the switch of ast.cpp:62-77
BuiltinBinop(G, Op, L, R) ==
    CASE Op = "+" -> CreateBinOp(G, "fadd", L, R)
      [] Op = "-" -> CreateBinOp(G, "fsub", L, R)
      [] Op = "*" -> CreateBinOp(G, "fmul", L, R)
      [] Op = "/" -> CreateBinOp(G, "fdiv", L, R)
      [] Op = "<" -> CreateUIToFP(CreateBinOp(G, "fcmp ult", L, R))

\* ast.cpp:57-80, L and R the outcomes of LHS->codegen() and RHS->codegen()
BinaryOperator(L, R, Op) ==
    IF R.G.crashed THEN NoVal(R.G)
    ELSE IF ~L.val \/ ~R.val THEN NoVal(R.G)
    ELSE IF Op \in BuiltinBinops THEN BuiltinBinop(R.G, Op, L.v, R.v)
    ELSE BinaryCall(getFunction(R.G, Append(s_binary, Op)), L.v, R.v)

\* ast.cpp:55
BinaryRHS(L, e) ==
    IF L.G.crashed THEN NoVal(L.G)
    ELSE BinaryOperator(L, codegen(L.G, e.RHS), e.Op)

BinaryExprAST_codegen(G, e) ==
    IF e.Op = "=" THEN AssignExpr_codegen(G, e)
    ELSE BinaryRHS(codegen(G, e.LHS), e)

\* ast.cpp:94-97
UnaryCall(f, OperandV) ==
    IF f.G.crashed THEN NoVal(f.G)
    ELSE IF f.F = NoFn THEN NoVal(LogErrorV(f.G, "Unkown unary operator"))
    ELSE CreateCall(f.G, f.F, <<OperandV>>)

\* ast.cpp:89-93
UnaryOperand(O, e) ==
    IF O.G.crashed \/ ~O.val THEN NoVal(O.G)
    ELSE UnaryCall(getFunction(O.G, Append(s_unary, e.Opcode)), O.v)

UnaryExprAST_codegen(G, e) == UnaryOperand(codegen(G, e.Operand), e)

\* ast.cpp:276-278; a failed loop is .val = FALSE, else .v is ArgsV
codegenArg(A, Args, i, ArgsV) ==
    IF A.G.crashed \/ ~A.val THEN NoVal(A.G)
    ELSE codegenArgs(A.G, Args, i + 1, Append(ArgsV, A.v))

\* the loop over Args of CallExprAST::codegen
codegenArgs(G, Args, i, ArgsV) ==
    IF i > Len(Args) THEN Val(G, ArgsV)
    ELSE codegenArg(codegen(G, Args[i]), Args, i, ArgsV)

\* ast.cpp:280
CallCreate(A, F) ==
    IF A.G.crashed \/ ~A.val THEN NoVal(A.G)
    ELSE CreateCall(A.G, F, A.v)

\* ast.cpp:267-279, f the outcome of getFunction(Callee)
CallResolved(f, e) ==
    IF f.G.crashed THEN NoVal(f.G)
    ELSE IF f.F = NoFn THEN NoVal(LogErrorV(f.G, "Unknown function referenced"))
    ELSE IF Len(f.G.TheModule.fns[f.F].Args) # Len(e.Args)
         THEN NoVal(LogErrorV(f.G, "Incorrect # arguments passed"))
    ELSE CallCreate(codegenArgs(f.G, e.Args, 1, <<>>), f.F)

CallExprAST_codegen(G, e) == CallResolved(getFunction(G, e.Callee), e)

\* ast.cpp:172-183, E the outcome of Else->codegen(); the insert block after
\* it is the else block the phi node names
IfElse(ThenV, ThenBB, E, MergeBB) ==
    IF E.G.crashed \/ ~E.val THEN NoVal(E.G)
    ELSE CreatePHI(SetInsertPoint(CreateBr(E.G, MergeBB), MergeBB),
                   <<[v |-> ThenV, BB |-> ThenBB], [v |-> E.v, BB |-> E.G.cur]>>)

\* ast.cpp:161-171, T the outcome of Then->codegen()
IfThen(T, ElseBB, MergeBB, e) ==
    IF T.G.crashed \/ ~T.val THEN NoVal(T.G)
    ELSE IfElse(T.v, T.G.cur,
                codegen(SetInsertPoint(CreateBr(T.G, MergeBB), ElseBB), e.Else),
                MergeBB)

\* ast.cpp:150-160: the blocks then, else and ifcont are ThenBB, ThenBB + 1
\* and ThenBB + 2
IfBranch(CondV, ThenBB, e) ==
    IfThen(codegen(SetInsertPoint(
                       CreateCondBr([CondV.G EXCEPT !.blocks = @ \o <<<<>>, <<>>, <<>>>>],
                                    CondV.v, ThenBB, ThenBB + 1),
                       ThenBB),
                   e.Then),
           ThenBB + 1, ThenBB + 2, e)

\* ast.cpp:141-145, C the outcome of Cond->codegen()
IfCond(C, e) ==
    IF C.G.crashed \/ ~C.val THEN NoVal(C.G)
    ELSE IfBranch(CreateFCmpONE(C.G, C.v), Len(C.G.blocks) + 1, e)

IfExprAST_codegen(G, e) == IfCond(codegen(G, e.Cond), e)

\* ForRestore leaving the loop slot bound to the name
ForRestore_KeepBinding(OldVal, slot, G, e) ==
    Val(Event(G, [ev |-> "for done", slot |-> slot, scope |-> G.NamedValues,
                    nextVal |-> G.nextVal, blocks |-> G.blocks,
                  NamedValues |-> G.NamedValues]),
        ConstantFP(Num(0)))

\* ast.cpp:251-261, G the state with the insert point in afterloop
ForRestore(OldVal, slot, G, e) ==
    IF OldVal # NullSlot
    THEN Val(Event([G EXCEPT !.NamedValues[e.VarName] = OldVal],
                   [ev |-> "for done", slot |-> slot, scope |-> G.NamedValues,
                    nextVal |-> G.nextVal, blocks |-> G.blocks,
                    NamedValues |-> [G.NamedValues EXCEPT ![e.VarName] = OldVal]]),
             ConstantFP(Num(0)))
    ELSE Val(Event([G EXCEPT !.NamedValues = [n \in DOMAIN @ \ {e.VarName} |-> @[n]]],
                   [ev |-> "for done", slot |-> slot, scope |-> G.NamedValues,
                    nextVal |-> G.nextVal, blocks |-> G.blocks,
                    NamedValues |-> [n \in DOMAIN G.NamedValues \ {e.VarName} |->
                                        G.NamedValues[n]]]),
             ConstantFP(Num(0)))

\* ast.cpp:243-251, EndCond the outcome of CreateFCmpONE
ForBranch(EndCond, LoopBB, AfterBB) ==
    SetInsertPoint(CreateCondBr([EndCond.G EXCEPT !.blocks = Append(@, <<>>)],
                                EndCond.v, LoopBB, AfterBB),
                   AfterBB)

\* ast.cpp:237-243, En the outcome of End->codegen()
ForEndCond(OldVal, slot, LoopBB, En, e) ==
    IF En.G.crashed \/ ~En.val THEN NoVal(En.G)
    ELSE ForRestore(OldVal, slot,
                    ForBranch(CreateFCmpONE(En.G, En.v), LoopBB, Len(En.G.blocks) + 1), e)

\* ast.cpp:235, NextVar the outcome of CreateFAdd
ForStoreNext(NextVar, slot) == CreateStore(NextVar.G, NextVar.v, slot)

\* ast.cpp:232-233, CurVal the outcome of the load of the loop slot
ForNextVar(CurVal, StepV, slot) ==
    ForStoreNext(CreateBinOp(CurVal.G, "fadd", CurVal.v, StepV), slot)

\* the end condition lowered before the induction variable is updated
ForEnd_CondFirst(OldVal, slot, LoopBB, St, e) ==
    IF St.G.crashed \/ ~St.val THEN NoVal(St.G)
    ELSE LET En == codegen(St.G, e.End)
         IN  IF En.G.crashed \/ ~En.val THEN NoVal(En.G)
             ELSE ForRestore(OldVal, slot,
                      ForBranch(CreateFCmpONE(ForNextVar(CreateLoad(En.G, slot), St.v, slot),
                                              En.v),
                                LoopBB, Len(En.G.blocks) + 1),
                      e)

\* ast.cpp:229-237, St the outcome of Step->codegen() or the constant 1.0
ForEnd(OldVal, slot, LoopBB, St, e) ==
    IF St.G.crashed \/ ~St.val THEN NoVal(St.G)
    ELSE ForEndCond(OldVal, slot, LoopBB,
                    codegen(ForNextVar(CreateLoad(St.G, slot), St.v, slot), e.End), e)

\* ast.cpp:213-229, B the outcome of Body->codegen()
ForStep(OldVal, slot, LoopBB, B, e) ==
    IF B.G.crashed \/ ~B.val THEN NoVal(B.G)
    ELSE ForEnd(OldVal, slot, LoopBB,
                IF e.Step # Null THEN codegen(B.G, e.Step)
                ELSE Val(B.G, ConstantFP(Num(1))),
                e)

\* ast.cpp:208-212, G1 the state after NamedValues[VarName]
ForBody(G1, slot, LoopBB, e) ==
    ForStep(G1.NamedValues[e.VarName], slot, LoopBB,
            codegen(Event([G1 EXCEPT !.NamedValues[e.VarName] = slot],
                          [ev |-> "for body", slot |-> slot, nextVal |-> G1.nextVal,
                           NamedValues |-> [G1.NamedValues EXCEPT ![e.VarName] = slot]]),
                    e.Body),
            e)

\* ast.cpp:200-208, G the state after the store of the start value
ForLoop(G, slot, LoopBB, e) ==
    ForBody(NamedValuesAt(SetInsertPoint(
                              CreateBr([G EXCEPT !.blocks = Append(@, <<>>)], LoopBB),
                              LoopBB),
                          e.VarName),
            slot, LoopBB, e)

\* ast.cpp:194-200, S the outcome of Start->codegen()
ForBind(slot, S, e) ==
    IF S.G.crashed \/ ~S.val THEN NoVal(S.G)
    ELSE ForLoop(CreateStore(S.G, S.v, slot), slot, Len(S.G.blocks) + 1, e)

\* ast.cpp:193
ForStart(A, e) == ForBind(A.slot, codegen(A.G, e.Start), e)

ForExprAST_codegen(G, e) ==
    ForStart(CreateEntryBlockAlloca(
                 Event(G, [ev |-> "for", slot |-> G.nextSlot, name |-> e.VarName,
                           nextVal |-> G.nextVal,
                           NamedValues |-> G.NamedValues])),
             e)

\* ast.cpp:130-132: the saved bindings are written back, first to last
RECURSIVE VarRestore(_, _, _, _)
VarRestore(G, VarNames, OldBindings, i) ==
    IF i > Len(VarNames) THEN G
    ELSE VarRestore([G EXCEPT !.NamedValues[VarNames[i].Name] = OldBindings[i]],
                    VarNames, OldBindings, i + 1)

\* ast.cpp:125-135, B the outcome of Body->codegen()
VarBody(B, e, OldBindings) ==
    IF B.G.crashed \/ ~B.val THEN NoVal(B.G)
    ELSE Val(VarRestore(Event(B.G, [ev |-> "var body", v |-> B.v,
                                    NamedValues |-> B.G.NamedValues]),
                        e.VarNames, OldBindings, 1),
             B.v)

RECURSIVE VarBindings(_, _, _, _)

\* ast.cpp:121-122, G1 the state after NamedValues[VarName]
VarShadow(G1, slot, e, i, OldBindings) ==
    VarBindings([G1 EXCEPT !.NamedValues[e.VarNames[i].Name] = slot], e, i + 1,
                Append(OldBindings, G1.NamedValues[e.VarNames[i].Name]))

\* ast.cpp:118-121, A the outcome of CreateEntryBlockAlloca
VarAlloca(A, InitVal, e, i, OldBindings) ==
    VarShadow(NamedValuesAt(CreateStore(A.G, InitVal, A.slot), e.VarNames[i].Name),
              A.slot, e, i, OldBindings)

\* ast.cpp:110-118, I the outcome of Init->codegen() or the constant 0.0
VarInit(I, e, i, OldBindings) ==
    IF I.G.crashed \/ ~I.val THEN NoVal(I.G)
    ELSE VarAlloca(CreateEntryBlockAlloca(I.G), I.v, e, i, OldBindings)

\* the loop over VarNames of VarExprAST::codegen, then the body
VarBindings(G, e, i, OldBindings) ==
    IF i > Len(e.VarNames) THEN VarBody(codegen(G, e.Body), e, OldBindings)
    ELSE VarInit(IF e.VarNames[i].Init # Null THEN codegen(G, e.VarNames[i].Init)
                 ELSE Val(G, ConstantFP(Num(0))),
                 e, i, OldBindings)

VarExprAST_codegen(G, e) == VarBindings(G, e, 1, <<>>)

codegen(G, e) ==
    CASE e.kind = "Number"   -> NumberExprAST_codegen(G, e)
      [] e.kind = "Variable" -> VariableExprAST_codegen(G, e)
      [] e.kind = "Binary"   -> BinaryExprAST_codegen(G, e)
      [] e.kind = "Unary"    -> UnaryExprAST_codegen(G, e)
      [] e.kind = "Call"     -> CallExprAST_codegen(G, e)
      [] e.kind = "If"       -> IfExprAST_codegen(G, e)
      [] e.kind = "For"      -> ForExprAST_codegen(G, e)
      [] e.kind = "Var"      -> VarExprAST_codegen(G, e)

\* the loop over TheFunction->args() of FunctionAST::codegen
RECURSIVE BindArgs(_, _, _)
BindArg(A, Args, i) ==
    BindArgs([CreateStore(A.G, Argument(i), A.slot)
                 EXCEPT !.NamedValues = IF Args[i] \in DOMAIN @
                                        THEN [@ EXCEPT ![Args[i]] = A.slot]
                                        ELSE @ @@ (Args[i] :> A.slot)],
             Args, i + 1)

BindArgs(G, Args, i) ==
    IF i > Len(Args) THEN G
    ELSE BindArg(CreateEntryBlockAlloca(G), Args, i)

\* RegisterProto keeping the prototype already registered under the name
RegisterProto_KeepFirst(Protos, P) ==
    IF P.Name \in DOMAIN Protos THEN Protos
    ELSE Protos @@ (P.Name :> P)

\* FunctionProtos[Proto->getName()] = std::move(Proto)
RegisterProto(Protos, P) ==
    IF P.Name \in DOMAIN Protos THEN [Protos EXCEPT ![P.Name] = P]
    ELSE Protos @@ (P.Name :> P)

\* BinopPrecedence[P.getOperatorName()] = P.getBinaryPrecedence()
SetPrecedence(Prec, P) ==
    IF getOperatorName(P) \in DOMAIN Prec
    THEN [Prec EXCEPT ![getOperatorName(P)] = P.Precedence]
    ELSE Prec @@ (getOperatorName(P) :> P.Precedence)

\* FunctionBody leaving the function in the module when its body fails
FunctionBody_NoErase(B, F, Fn) ==
    IF B.G.crashed THEN [G |-> B.G, F |-> NoFn]
    ELSE IF B.val
    THEN [G |-> Event([B.G EXCEPT !.TheModule.fns[F] =
                          [@ EXCEPT !.refs = B.G.refs, !.body = Fn.Body,
                                    !.blocks = CreateRet(B.G, B.v).blocks]],
                      [ev |-> "emitted", name |-> F]),
          F |-> F]
    ELSE [G |-> B.G, F |-> NoFn]

\* ast.cpp:351-374, B the outcome of Body->codegen()
FunctionBody(B, F, Fn) ==
    IF B.G.crashed THEN [G |-> B.G, F |-> NoFn]
    ELSE IF B.val
    THEN [G |-> Event([B.G EXCEPT !.TheModule.fns[F] =
                          [@ EXCEPT !.refs = B.G.refs, !.body = Fn.Body,
                                    !.blocks = CreateRet(B.G, B.v).blocks]],
                      [ev |-> "emitted", name |-> F]),
          F |-> F]
    ELSE \* TheFunction->eraseFromParent()
         [G |-> Event([B.G EXCEPT !.TheModule.fns = [n \in DOMAIN @ \ {F} |-> @[n]]],
                      [ev |-> "erased", name |-> F]),
          F |-> NoFn]

\* ast.cpp:338-348, G the state after the arguments are bound: the body is
\* about to be lowered
BodyStart(G, F, Fn) ==
    Event(G, [ev |-> "body", name |-> F, proto |-> Fn.Proto,
              NamedValues |-> G.NamedValues])

\* ast.cpp:329-350, G2 the state after the precedence is installed; the
\* entry block makes the function non-empty
FunctionEntry(G2, F, Fn) ==
    IF G2.TheModule.fns[F].hasBody
    THEN [G |-> LogErrorV(G2, "Function cannot be redefined."), F |-> NoFn]
    ELSE FunctionBody(
             codegen(BodyStart(BindArgs([G2 EXCEPT !.TheModule.fns[F].hasBody = TRUE,
                                                   !.NamedValues = <<>>, !.nextSlot = 1,
                                                   !.refs = {}, !.blocks = <<<<>>>>,
                                                   !.cur = 1, !.nextVal = 1],
                                        G2.TheModule.fns[F].Args, 1),
                               F, Fn),
                     Fn.Body),
             F, Fn)

\* ast.cpp:321-327, f the outcome of getFunction(P.getName())
FunctionResolved(f, Fn) ==
    IF f.G.crashed \/ f.F = NoFn THEN [G |-> f.G, F |-> NoFn]
    ELSE FunctionEntry(IF isBinaryOp(Fn.Proto)
                       THEN [f.G EXCEPT !.BinopPrecedence = SetPrecedence(@, Fn.Proto)]
                       ELSE f.G,
                       f.F, Fn)

\* FunctionAST::codegen: .F is the emitted function's name, NoFn for nullptr
FunctionAST_codegen(G, Fn) ==
    FunctionResolved(
        getFunction(Event([G EXCEPT !.FunctionProtos = RegisterProto(@, Fn.Proto)],
                          [ev |-> "FunctionAST::codegen", proto |-> Fn.Proto]),
                    Fn.Proto.Name),
        Fn)

\* InitializeModule: codegen.cpp:41
InitializeModule == EmptyModule

-----------------------------------------------------------------------------
(* The JIT: KaleidoscopeJIT.h (LLVM ORC), used through Create, addModule,  *)
(* lookup and ResourceTracker::remove.  The JIT holds the modules added    *)
(* and not removed, each with the tracker it was added under, the symbols  *)
(* it defines and the symbols its code calls.  Adding a module that        *)
(* defines a symbol the JIT already holds is an error (duplicate           *)
(* definition).  A look-up resolves a name in the added code and the       *)
(* host's symbols: it fails when the symbol is not defined, or when the    *)
(* module defining it, or one that module needs, calls a symbol that       *)
(* neither the JIT nor the host defines; the modules that failed stay in   *)
(* the JIT, in the error state, until their tracker is removed.            *)
(***************************************************************************)

s_putchard == <<"p","u","t","c","h","a","r","d">>
s_printd   == <<"p","r","i","n","t","d">>

\* main.cpp:143, main.cpp:149 (the C library's symbols are left out)
HostSymbols == {s_putchard, s_printd}

NullJIT  == [live |-> FALSE, mods |-> {}]

\* the tracker of a module added without one: JITDylib::getDefaultResourceTracker
DefaultRT == 0

ModuleDefs(M) == {n \in DOMAIN M.fns : M.fns[n].hasBody}
ModuleRefs(M) == UNION {M.fns[n].refs : n \in ModuleDefs(M)}

JITDefs(J) == UNION {m.defs : m \in J.mods}

\* KaleidoscopeJIT::Create
JITCreate == [live |-> TRUE, mods |-> {}]

\* KaleidoscopeJIT::addModule(TSM, RT)
JITaddModule(J, M, RT) ==
    IF ModuleDefs(M) \cap JITDefs(J) # {}
    THEN [ok |-> FALSE, J |-> J]
    ELSE [ok |-> TRUE,
          J |-> [J EXCEPT !.mods = @ \cup {[RT |-> RT, defs |-> ModuleDefs(M),
                                            refs |-> ModuleRefs(M),
                                            code |-> [n \in ModuleDefs(M) |-> M.fns[n]],
                                            failed |-> FALSE]}]]

\* the modules outside bad that call a symbol that is missing or defined only
\* by a module of bad
Unresolved(J, bad) ==
    {m \in J.mods \ bad :
        \E r \in m.refs : r \notin UNION {d.defs : d \in J.mods \ bad}
                          /\ r \notin HostSymbols}

\* the modules that cannot be linked: in the error state already, or calling
\* a symbol that is missing or defined by a module that cannot be linked
RECURSIVE Unlinkable(_, _)
Unlinkable(J, bad) ==
    IF Unresolved(J, bad) = {} THEN bad ELSE Unlinkable(J, bad \cup Unresolved(J, bad))

\* the names the modules defining one of names call
Reached(J, names) ==
    names \cup UNION {m.refs : m \in {d \in J.mods : d.defs \cap names # {}}}

\* the modules a look-up of names compiles: the ones defining them and,
\* through the calls, the ones those need
RECURSIVE Needed(_, _)
Needed(J, names) ==
    IF Reached(J, names) = names THEN {m \in J.mods : m.defs \cap names # {}}
    ELSE Needed(J, Reached(J, names))

\* the look-up of Name, hit the modules it needs that cannot be linked
JITlookupLink(J, Name, hit) ==
    IF Name \notin JITDefs(J) /\ Name \notin HostSymbols THEN [ok |-> FALSE, J |-> J]
    ELSE IF hit # {}
    THEN [ok |-> FALSE,
          J |-> [J EXCEPT !.mods = (@ \ hit) \cup {[m EXCEPT !.failed = TRUE] : m \in hit}]]
    ELSE [ok |-> TRUE, J |-> J]

\* KaleidoscopeJIT::lookup(Name)
JITlookup(J, Name) ==
    JITlookupLink(J, Name,
                  Needed(J, {Name}) \cap Unlinkable(J, {m \in J.mods : m.failed}))

\* ResourceTracker::remove
JITremove(J, RT) == [J EXCEPT !.mods = {m \in @ : m.RT # RT}]

\* ~ResourceTracker without remove(): what it tracked goes to the default tracker
JITreleaseTracker(J, RT) ==
    [J EXCEPT !.mods = {IF m.RT = RT THEN [m EXCEPT !.RT = DefaultRT] ELSE m : m \in @}]

-----------------------------------------------------------------------------
(* The code the JIT runs: the meaning of the instructions the lowering     *)
(* emits (LLVM IR), as a machine with a stack of frames.  A run-time value *)
(* is [def, n]: a number n (the inputs checked are integers, which double  *)
(* arithmetic computes exactly), or, with def FALSE, a value the model     *)
(* does not compute: a parameter the caller did not pass, a number that is *)
(* not an integer.  A call of native code executes at most MaxSteps        *)
(* instructions; one that needs more is a call that does not return.       *)
(***************************************************************************)

MaxSteps == 6000

Number(n) == [def |-> TRUE, n |-> n]
Undef == [def |-> FALSE, n |-> 0]

\* fadd, fsub, fmul, fdiv; fcmp ult and fcmp one give an i1, 1 for true
Arith(op, a, b) ==
    IF ~a.def \/ ~b.def THEN Undef
    ELSE CASE op = "fadd" -> Number(a.n + b.n)
           [] op = "fsub" -> Number(a.n - b.n)
           [] op = "fmul" -> Number(a.n * b.n)
           [] op = "fdiv" -> IF b.n # 0 /\ a.n % b.n = 0 THEN Number(a.n \div b.n)
                             ELSE Undef
           [] op = "fcmp ult" -> Number(IF a.n < b.n THEN 1 ELSE 0)
           [] op = "fcmp one" -> Number(IF a.n # b.n THEN 1 ELSE 0)

\* a frame: the function, the block and instruction executing, the block
\* control came from, the arguments, the values of the instructions, the
\* stack slots
Frame(F, args) ==
    [F |-> F, BB |-> 1, i |-> 1, prev |-> 0, args |-> args, regs |-> <<>>, mem |-> <<>>]

Put(f, k, v) == IF k \in DOMAIN f THEN [f EXCEPT ![k] = v] ELSE f @@ (k :> v)

Operand(fr, v) ==
    CASE v.k = "const" -> IF v.Val.frac = <<>> THEN Number(v.Val.whole) ELSE Undef
      [] v.k = "arg"   -> IF v.i \in DOMAIN fr.args THEN fr.args[v.i] ELSE Undef
      [] v.k = "val"   -> fr.regs[v.id]

Advance(fr) == [fr EXCEPT !.i = @ + 1]
SetReg(fr, id, x) == Advance([fr EXCEPT !.regs = Put(@, id, x)])
Jump(fr, BB) == [fr EXCEPT !.prev = fr.BB, !.BB = BB, !.i = 1]
Incoming(fr, in) == IF in[1].BB = fr.prev THEN Operand(fr, in[1].v) ELSE Operand(fr, in[2].v)

\* the code of the JIT: the functions its modules define
JITCode(J) == [n \in JITDefs(J) |-> (CHOOSE m \in J.mods : n \in m.defs).code[n]]

\* the machine about to call F
Machine(F, args) == [stack |-> <<Frame(F, args)>>, v |-> Undef, halted |-> FALSE]

Top(M) == M.stack[Len(M.stack)]
SetTop(M, fr) == [M EXCEPT !.stack[Len(M.stack)] = fr]
Fetch(code, fr) == code[fr.F].blocks[fr.BB][fr.i]

\* ret in the frame fr: the caller, at its call instruction, gets the value
Return(code, M, x) ==
    IF Len(M.stack) = 1 THEN [M EXCEPT !.halted = TRUE, !.v = x]
    ELSE [M EXCEPT !.stack =
             [SubSeq(@, 1, Len(@) - 1) EXCEPT ![Len(@) - 1] =
                 SetReg(@, Fetch(code, @).id, x)]]

\* the instruction I of the top frame fr; putchard and printd, the symbols
\* the code does not define, return 0 (main.cpp:143-152)
Execute(code, M, fr, I) ==
    CASE I.op = "alloca" -> SetTop(M, Advance(fr))
      [] I.op = "store"  ->
            SetTop(M, Advance([fr EXCEPT !.mem = Put(@, I.slot, Operand(fr, I.v))]))
      [] I.op = "load"   ->
            SetTop(M, SetReg(fr, I.id,
                             IF I.slot \in DOMAIN fr.mem THEN fr.mem[I.slot] ELSE Undef))
      [] I.op \in {"fadd", "fsub", "fmul", "fdiv", "fcmp ult", "fcmp one"} ->
            SetTop(M, SetReg(fr, I.id, Arith(I.op, Operand(fr, I.L), Operand(fr, I.R))))
      [] I.op = "uitofp" -> SetTop(M, SetReg(fr, I.id, Operand(fr, I.v)))
      [] I.op = "phi"    -> SetTop(M, SetReg(fr, I.id, Incoming(fr, I.in)))
      [] I.op = "br"     -> SetTop(M, Jump(fr, I.BB))
      [] I.op = "condbr" ->
            SetTop(M, Jump(fr, IF Operand(fr, I.c).def /\ Operand(fr, I.c).n # 0
                               THEN I.T ELSE I.F))
      [] I.op = "call"   ->
            IF I.F \notin DOMAIN code THEN SetTop(M, SetReg(fr, I.id, Number(0)))
            ELSE [M EXCEPT !.stack =
                     Append(@, Frame(I.F, [k \in DOMAIN I.Args |-> Operand(fr, I.Args[k])]))]
      [] I.op = "ret"    -> Return(code, M, Operand(fr, I.v))

Step(code, M) == Execute(code, M, Top(M), Fetch(code, Top(M)))

\* up to k instructions, none once the first call has returned
RECURSIVE Steps(_, _, _)
Steps(code, M, k) ==
    IF M.halted THEN M
    ELSE IF k = 1 THEN Step(code, M)
    ELSE Steps(code, Steps(code, M, k \div 2), k - (k \div 2))

\* the call F(args) of native code: .ok is FALSE when it does not return
Halted(M) == [ok |-> M.halted, v |-> M.v]
Call(J, F, args) == Halted(Steps(JITCode(J), Machine(F, args), MaxSteps))

-----------------------------------------------------------------------------
(* The driver: main.cpp.  A handler takes the program state W (the parser  *)
(* state .S, the globals of codegen.cpp, the JIT, the trace of events) and *)
(* returns the state when it returns.  Every event of the trace carries    *)
(* .ntok, the number of tokens read from the lexer when it happened.       *)

World == [S |-> LexState, TheModule |-> TheModule, FunctionProtos |-> FunctionProtos,
          NamedValues |-> NamedValues, TheJIT |-> TheJIT, nextRT |-> nextRT,
          trace |-> <<>>, crashed |-> FALSE, hung |-> FALSE]

Emit(W, name) == [W EXCEPT !.trace = Append(@, [ev |-> name, ntok |-> W.S.ntok])]

\* a handler's parse function returned a node with the prototype P and the
\* body Body (Null for the prototype of an extern)
EmitParsed(W, P, Body) ==
    [W EXCEPT !.trace = Append(@, [ev |-> "parsed", ntok |-> W.S.ntok, proto |-> P,
                                   body |-> Body])]

\* "Evaluated to %f": the event carries the value printed
EmitValue(W, name, v) ==
    [W EXCEPT !.trace = Append(@, [ev |-> name, ntok |-> W.S.ntok, value |-> v])]

\* the events e1, ..., en stamped with the number of tokens read
Stamped(es, n) == [i \in DOMAIN es |-> es[i] @@ [ntok |-> n]]

\* the parse of a handler: the state the parser left, the lines it logged
Parsed(W, p) == [W EXCEPT !.S = p.S, !.trace = @ \o Stamped(p.S.log, p.S.ntok)]

\* SkipToken without the call of getNextToken()
SkipToken_NoAdvance(W) == Emit(W, "skip token")

\* the else branch of a handler: skip a token for error recovery
SkipToken(W) == Emit([W EXCEPT !.S = getNextToken(@)], "skip token")

\* the call FnAST->codegen() or ProtoAST->codegen() of a handler
LoweringState(W, ub) ==
    [TheModule |-> W.TheModule, FunctionProtos |-> W.FunctionProtos,
     NamedValues |-> W.NamedValues, BinopPrecedence |-> W.S.BinopPrecedence,
     ev |-> <<>>, refs |-> {}, nextSlot |-> 1, blocks |-> <<>>, cur |-> 0, nextVal |-> 1,
     crashed |-> FALSE, ub |-> ub]

Lowered(W, G) ==
    [W EXCEPT !.TheModule = G.TheModule, !.FunctionProtos = G.FunctionProtos,
              !.NamedValues = G.NamedValues, !.S.BinopPrecedence = G.BinopPrecedence,
              !.trace = @ \o Stamped(G.ev, W.S.ntok), !.crashed = G.crashed]

\* DefinitionAdded without the call of InitializeModule
DefinitionAdded_NoReset(W, a) ==
    IF ~a.ok THEN Emit([W EXCEPT !.TheJIT = a.J], "addModule failed")
    ELSE Emit([W EXCEPT !.TheJIT = a.J], "addModule")

\* DefinitionAdded with the fresh module installed before the module is added
DefinitionAdded_InstallFirst(W, a) ==
    IF ~a.ok THEN Emit([W EXCEPT !.TheJIT = a.J], "addModule failed")
    ELSE Emit([Emit(W, "InitializeModule")
                  EXCEPT !.TheJIT = a.J, !.TheModule = InitializeModule],
              "addModule")

\* main.cpp:30-36, a the outcome of addModule
DefinitionAdded(W, a) ==
    IF ~a.ok THEN Emit([W EXCEPT !.TheJIT = a.J], "addModule failed")
    ELSE Emit([Emit([W EXCEPT !.TheJIT = a.J], "addModule")
                  EXCEPT !.TheModule = InitializeModule],
              "InitializeModule")

\* main.cpp:29-36: the module goes to the JIT, a fresh one replaces it
TransferDefinition(W) ==
    DefinitionAdded([W EXCEPT !.TheModule = NullModule],
                    JITaddModule(W.TheJIT, W.TheModule, DefaultRT))

\* main.cpp:21-39, cg the outcome of FnAST->codegen()
DefinitionLowered(W2, F) ==
    IF W2.crashed THEN W2
    ELSE IF F = NoFn THEN Emit(W2, "lowering failed")
    ELSE TransferDefinition(Emit(W2, "lowered"))

DefinitionCodegen(W1, cg) == DefinitionLowered(Lowered(W1, cg.G), cg.F)

\* main.cpp:20-44, p the outcome of ParseDefinition()
DefinitionParsed(W, p, ub) ==
    IF p.ast = Null THEN SkipToken(Emit(Parsed(W, p), "parse failed"))
    ELSE DefinitionCodegen(EmitParsed(Parsed(W, p), p.ast.Proto, p.ast.Body),
                           FunctionAST_codegen(LoweringState(Parsed(W, p), ub), p.ast))

HandleDefinition(W, ub) == DefinitionParsed(W, ParseDefinition(W.S), ub)

\* main.cpp:57
RegisterExtern(W, P) == [W EXCEPT !.FunctionProtos = RegisterProto(@, P)]

\* main.cpp:49-58
ExternLowered(W2, F, P) ==
    IF W2.crashed THEN W2
    ELSE IF F = NoFn THEN Emit(W2, "lowering failed")
    ELSE Emit(RegisterExtern(Emit(W2, "lowered"), P), "registered")

ExternCodegen(W1, cg, P) == ExternLowered(Lowered(W1, cg.G), cg.F, P)

\* main.cpp:48-62, p the outcome of ParseExtern()
ExternParsed(W, p, ub) ==
    IF p.ast = Null THEN SkipToken(Emit(Parsed(W, p), "parse failed"))
    ELSE ExternCodegen(EmitParsed(Parsed(W, p), p.ast, Null),
                       PrototypeAST_codegen(
                           Event(LoweringState(Parsed(W, p), ub),
                                 [ev |-> "PrototypeAST::codegen", proto |-> p.ast]),
                           p.ast),
                       p.ast)

HandleExtern(W, ub) == ExternParsed(W, ParseExtern(W.S), ub)

\* InvokeAnonExpr with the tracker removed before the call
InvokeAnonExpr_RemoveFirst(W, RT) ==
    Emit(Emit(Emit([W EXCEPT !.TheJIT = JITremove(@, RT)], "remove"), "invoke"), "print")

\* InvokeAnonExpr removing the default tracker instead of the expression's
InvokeAnonExpr_WrongTracker(W, RT) ==
    Emit([Emit(Emit(W, "invoke"), "print") EXCEPT !.TheJIT = JITremove(@, DefaultRT)],
         "remove")

\* main.cpp:96-102, r the outcome of the call FP(): print, remove the tracker
AnonExprReturned(W, r, RT) ==
    IF ~r.ok THEN [W EXCEPT !.hung = TRUE]
    ELSE Emit([EmitValue(W, "print", r.v) EXCEPT !.TheJIT = JITremove(@, RT)], "remove")

\* main.cpp:94-102: call the native function, print, remove the tracker
InvokeAnonExpr(W, RT) ==
    AnonExprReturned(Emit(W, "invoke"), Call(W.TheJIT, s_anon_expr, <<>>), RT)

\* main.cpp:87-102, l the outcome of lookup("__anon_expr")
AnonExprLookedUp(W, l, RT) ==
    IF ~l.ok
    THEN Emit([W EXCEPT !.TheJIT = JITreleaseTracker(l.J, RT)], "lookup failed")
    ELSE InvokeAnonExpr(Emit([W EXCEPT !.TheJIT = l.J], "lookup"), RT)

RunAnonExpr(W, RT) == AnonExprLookedUp(W, JITlookup(W.TheJIT, s_anon_expr), RT)

\* main.cpp:79-85, a the outcome of addModule
AnonExprAdded(W, a, RT) ==
    IF ~a.ok THEN Emit([W EXCEPT !.TheJIT = JITreleaseTracker(a.J, RT)], "addModule failed")
    ELSE RunAnonExpr(Emit([Emit([W EXCEPT !.TheJIT = a.J], "addModule")
                              EXCEPT !.TheModule = InitializeModule],
                          "InitializeModule"),
                     RT)

\* main.cpp:75-85: a tracker, the module to the JIT under it, a fresh module
TransferAnonExpr(W) ==
    AnonExprAdded(Emit([W EXCEPT !.nextRT = @ + 1, !.TheModule = NullModule],
                       "createResourceTracker"),
                  JITaddModule(W.TheJIT, W.TheModule, W.nextRT),
                  W.nextRT)

\* main.cpp:70-105
TopLevelLowered(W2, F) ==
    IF W2.crashed THEN W2
    ELSE IF F = NoFn THEN Emit(W2, "lowering failed")
    ELSE TransferAnonExpr(Emit(W2, "lowered"))

TopLevelCodegen(W1, cg) == TopLevelLowered(Lowered(W1, cg.G), cg.F)

\* main.cpp:68-110, p the outcome of ParseTopLevelExpr()
TopLevelParsed(W, p, ub) ==
    IF p.ast = Null THEN SkipToken(Emit(Parsed(W, p), "parse failed"))
    ELSE TopLevelCodegen(EmitParsed(Parsed(W, p), p.ast.Proto, p.ast.Body),
                         FunctionAST_codegen(LoweringState(Parsed(W, p), ub), p.ast))

HandleTopLevelExpression(W, ub) == TopLevelParsed(W, ParseTopLevelExpr(W.S), ub)

\* main.cpp:165-169
SeedPrecedence == ("=" :> 2) @@ ("<" :> 10) @@ ("+" :> 20) @@ ("-" :> 20) @@ ("*" :> 40)

\* main.cpp:175-187
MainJIT(W1, jitOk) ==
    IF ~jitOk THEN Emit(W1, "Failed to create JIT")
    ELSE Emit([W1 EXCEPT !.TheJIT = JITCreate, !.TheModule = InitializeModule],
              "InitializeModule")

\* main(): up to the call of MainLoop
MainStart(W, jitOk) ==
    MainJIT(Emit([W EXCEPT !.S = getNextToken([@ EXCEPT !.BinopPrecedence = SeedPrecedence])],
                 "getNextToken"),
            jitOk)

\* history: the prototype a handler's parse returned is added to the ones
\* recorded under its name
ParsedEvents(tr) == {i \in DOMAIN tr : tr[i].ev = "parsed"}

Recorded(old, P) ==
    [n \in DOMAIN old \cup {P.Name} |->
        IF n # P.Name THEN old[n]
        ELSE IF n \in DOMAIN old THEN Append(old[n], P) ELSE <<P>>]

Relowered(old, tr) ==
    IF ParsedEvents(tr) = {} THEN old
    ELSE Recorded(old, tr[CHOOSE i \in ParsedEvents(tr) : TRUE].proto)

\* history: a definition whose module the JIT accepted is the definition
\* of its name
Defined(old, tr, handler) ==
    IF handler # "HandleDefinition" \/ \A i \in DOMAIN tr : tr[i].ev # "addModule" THEN old
    ELSE [n \in DOMAIN old \cup {tr[CHOOSE i \in ParsedEvents(tr) : TRUE].proto.Name} |->
            IF n = tr[CHOOSE i \in ParsedEvents(tr) : TRUE].proto.Name
            THEN [Args |-> tr[CHOOSE i \in ParsedEvents(tr) : TRUE].proto.Args,
                  Body |-> tr[CHOOSE i \in ParsedEvents(tr) : TRUE].body]
            ELSE old[n]]

\* the new values of the variables from the state a handler returns
Commit(W, handler, nextpc) ==
    /\ ipos' = W.S.ipos
    /\ LastChar' = W.S.LastChar
    /\ IdentifierStr' = W.S.IdentifierStr
    /\ NumVal' = W.S.NumVal
    /\ CurTok' = W.S.CurTok
    /\ ntok' = W.S.ntok
    /\ BinopPrecedence' = W.S.BinopPrecedence
    /\ TheModule' = W.TheModule
    /\ FunctionProtos' = W.FunctionProtos
    /\ NamedValues' = W.NamedValues
    /\ TheJIT' = W.TheJIT
    /\ nextRT' = W.nextRT
    /\ trace' = W.trace
    /\ lowerings' = Relowered(lowerings, W.trace)
    /\ definitions' = Defined(definitions, W.trace, handler)
    /\ handled' = handler
    /\ pc' = IF W.crashed THEN "crashed" ELSE IF W.hung THEN "hung" ELSE nextpc
    /\ UNCHANGED <<input, prevLex>>

Main ==
    /\ pc = "start"
    /\ \E jitOk \in BOOLEAN :
          Commit(MainStart(World, jitOk), "main", IF jitOk THEN "loop" ELSE "exit1")

\* MainLoop: case tok_eof
LoopEof ==
    /\ pc = "loop" /\ CurTok = "tok_eof"
    /\ Commit(World, "eof", "done")

\* MainLoop: case ';'
LoopSemicolon ==
    /\ pc = "loop" /\ CurTok = ";"
    /\ Commit(Emit([World EXCEPT !.S = getNextToken(@)], "getNextToken"),
              "semicolon", "loop")

\* MainLoop: case tok_def
LoopDefinition ==
    /\ pc = "loop" /\ CurTok = "tok_def"
    /\ \E ub \in UBOutcomes : Commit(HandleDefinition(World, ub), "HandleDefinition", "loop")

\* MainLoop: case tok_extern
LoopExtern ==
    /\ pc = "loop" /\ CurTok = "tok_extern"
    /\ \E ub \in UBOutcomes : Commit(HandleExtern(World, ub), "HandleExtern", "loop")

\* MainLoop: default
LoopTopLevelExpression ==
    /\ pc = "loop" /\ CurTok \notin {"tok_eof", ";", "tok_def", "tok_extern"}
    /\ \E ub \in UBOutcomes :
          Commit(HandleTopLevelExpression(World, ub), "HandleTopLevelExpression", "loop")

Next == Main \/ LoopEof \/ LoopSemicolon \/ LoopDefinition \/ LoopExtern
        \/ LoopTopLevelExpression

-----------------------------------------------------------------------------
(* The inputs: a program is up to MaxConstructs top-level constructs, each *)
(* one of the texts below.                                                 *)

MaxConstructs == 3

\* def f(x) x;
T_def_f == <<"d","e","f"," ","f","(","x",")"," ","x",";">>
\* def f(x y) g(x);
T_def_f2 == <<"d","e","f"," ","f","(","x"," ","y",")"," ","g","(","x",")",";">>
\* def g(x) x 
T_def_g == <<"d","e","f"," ","g","(","x",")"," ","x"," ">>
\* extern g(x);
T_extern_g == <<"e","x","t","e","r","n"," ","g","(","x",")",";">>
\* extern f(x y) 
T_extern_f2 == <<"e","x","t","e","r","n"," ","f","(","x"," ","y",")"," ">>
\* f(1);
T_call_f == <<"f","(","1",")",";">>
\* g(2);
T_call_g == <<"g","(","2",")",";">>
\* h(1);
T_call_h == <<"h","(","1",")",";">>
\* 1;
T_number == <<"1",";">>
\* def 1;
T_def_bad == <<"d","e","f"," ","1",";">>
\* !1;
T_unary == <<"!","1",";">>

Templates == <<T_def_f, T_def_f2, T_def_g, T_extern_g, T_extern_f2, T_call_f, T_call_g,
               T_call_h, T_number, T_def_bad, T_unary>>

\* the texts of at most n of the texts T, one after the other, sep between them
RECURSIVE TextsOf(_, _, _)
TextsOf(T, sep, n) ==
    IF n = 0 THEN {<<>>}
    ELSE TextsOf(T, sep, n - 1)
         \cup {(IF p = <<>> THEN p ELSE p \o sep) \o T[i] :
                  p \in TextsOf(T, sep, n - 1), i \in 1..Len(T)}

Programs == TextsOf(Templates, <<>>, MaxConstructs)

NUL == "NUL"     \* int CurTok: zero-initialised

InitLex == [ipos |-> 0, LastChar |-> " ", IdentifierStr |-> <<>>, NumVal |-> Num(0),
            CurTok |-> NUL, ntok |-> 0]

InitGlobals ==
    /\ ipos = 0
    /\ LastChar = " "
    /\ IdentifierStr = <<>>
    /\ NumVal = Num(0)
    /\ CurTok = NUL
    /\ ntok = 0
    /\ prevLex = InitLex
    /\ BinopPrecedence = <<>>
    /\ TheModule = NullModule
    /\ FunctionProtos = <<>>
    /\ NamedValues = <<>>
    /\ TheJIT = NullJIT
    /\ nextRT = 1
    /\ handled = "none"
    /\ trace = <<>>
    /\ lowerings = <<>>
    /\ definitions = <<>>

Init ==
    /\ input \in Programs
    /\ pc = "start"
    /\ InitGlobals

Spec == Init /\ [][Next]_vars

-----------------------------------------------------------------------------
(* The lexer alone: getNextToken() is called until MaxTokens tokens were    *)
(* read, the calls after it returned tok_eof included, on a text of up to  *)
(* MaxWords words with a space between them.                               *)

MaxWords == 2
MaxTokens == 8

Words == <<s_def, s_extern, s_if, s_then, s_else, s_for, s_in, s_binary, s_unary, s_var,
           <<"x">>, <<"d","e","f","x">>, <<"i","n","1">>, <<"V","a","r">>,
           <<"1","f">>, <<"(">>, <<"#","c">>, <<"#","\n">> >>

LexTexts == TextsOf(Words, <<" ">>, MaxWords)

\* the new values of the lexer's variables from the state getNextToken leaves
LexCommit(L) ==
    /\ ipos' = L.ipos
    /\ LastChar' = L.LastChar
    /\ IdentifierStr' = L.IdentifierStr
    /\ NumVal' = L.NumVal
    /\ CurTok' = L.CurTok
    /\ ntok' = L.ntok
    /\ prevLex' = [ipos |-> ipos, LastChar |-> LastChar, IdentifierStr |-> IdentifierStr,
                   NumVal |-> NumVal, CurTok |-> CurTok, ntok |-> ntok]
    /\ UNCHANGED <<input, pc, cgvars, handled, trace, lowerings, definitions>>

LexAdvance ==
    /\ pc = "lex" /\ (CurTok # "tok_eof" \/ ntok < MaxTokens)
    /\ LexCommit(getNextToken(LexState))

LexInit ==
    /\ input \in LexTexts
    /\ pc = "lex"
    /\ InitGlobals

LexNext == LexAdvance

LexSpec == LexInit /\ [][LexNext]_vars

-----------------------------------------------------------------------------
(* Properties.  They are stated over the trace of the last dispatch        *)
(* iteration: the events it produced, in order.                            *)

EventsNamed(tr, name) == {i \in DOMAIN tr : tr[i].ev = name}
Happened(tr, name) == EventsNamed(tr, name) # {}
IndexOf(tr, name) == CHOOSE i \in EventsNamed(tr, name) : TRUE
Logged(tr, msg) == \E i \in DOMAIN tr : tr[i].ev = "LogError" /\ tr[i].msg = msg
ParsedName(tr) == tr[IndexOf(tr, "parsed")].proto.Name

\* each of the steps happened at most once, and one that happened was
\* preceded by the step before it
InOrder(tr, steps) ==
    \A j \in 1..Len(steps) :
        /\ Cardinality(EventsNamed(tr, steps[j])) <= 1
        /\ (j > 1 /\ Happened(tr, steps[j]))
              => /\ Happened(tr, steps[j - 1])
                 /\ IndexOf(tr, steps[j - 1]) < IndexOf(tr, steps[j])

AnonSteps == <<"lowered", "createResourceTracker", "addModule", "lookup", "invoke",
               "print", "remove">>
TransferSteps == <<"parsed", "lowered", "addModule", "InitializeModule">>
Handlers == {"HandleDefinition", "HandleTopLevelExpression"}

\* C1: the handling of an anonymous top-level expression lowers __anon_expr,
\* creates the tracker and adds the module under it, looks __anon_expr up,
\* invokes it, prints the result and removes the tracker, in this order and
\* each at most once; the removal comes after the invocation and the print.
C1_AnonymousExpressionOrder ==
    handled = "HandleTopLevelExpression" => InOrder(trace, AnonSteps)

C1_Witness ==
    /\ handled = "HandleTopLevelExpression"
    /\ Happened(trace, "invoke")
    /\ Happened(trace, "remove")

\* C2: once the handling of a top-level expression that was invoked and
\* removed has finished, the JIT holds no __anon_expr: looking it up fails.
C2_AnonymousNotPersistent ==
    (handled = "HandleTopLevelExpression" /\ Happened(trace, "invoke")
        /\ Happened(trace, "remove"))
    => /\ ~JITlookup(TheJIT, s_anon_expr).ok
       /\ s_anon_expr \notin JITDefs(TheJIT)

C2_Witness ==
    /\ handled = "HandleTopLevelExpression"
    /\ Happened(trace, "remove")
    /\ JITDefs(TheJIT) # {}
    /\ Len(lowerings[s_anon_expr]) > 1

\* C3 (as claimed): a handling of a top-level expression that created a
\* resource tracker removes it on every path, also when adding the module or
\* the look-up fails.
C3_TrackerAlwaysRemoved ==
    (handled = "HandleTopLevelExpression" /\ Happened(trace, "createResourceTracker"))
    => Happened(trace, "remove")

\* C4 (as claimed): when adding a module or looking up a symbol failed, the
\* dispatch loop goes on with a current module that exists.
C4_ModuleExistsAfterJITFailure ==
    (Happened(trace, "addModule failed") \/ Happened(trace, "lookup failed"))
    => (pc = "loop" /\ TheModule.live)

\* C5 (as claimed): a def of a name the JIT already holds a definition of is
\* rejected at lowering with the redefinition diagnostic, and is neither
\* lowered nor handed to the JIT again.
C5_RedefinitionRejected ==
    [][(handled' = "HandleDefinition" /\ Happened(trace', "parsed")
           /\ ParsedName(trace') \in JITDefs(TheJIT))
       => (/\ Logged(trace', "Function cannot be redefined.")
           /\ ~Happened(trace', "lowered")
           /\ ~Happened(trace', "addModule")
           /\ ~Happened(trace', "addModule failed"))]_vars

\* C6 (as claimed): after every successful handling of a def, an extern or an
\* anonymous expression the module that was current has been transferred to
\* the JIT and the current module is a fresh empty one; the module is empty
\* when the dispatch loop starts.
C6_FreshModuleAfterEveryHandling ==
    /\ (handled = "main" /\ pc = "loop") => TheModule = EmptyModule
    /\ ((handled \in Handlers /\ Happened(trace, "addModule"))
           \/ (handled = "HandleExtern" /\ Happened(trace, "registered")))
       => (Happened(trace, "addModule") /\ TheModule = EmptyModule)

\* C6 (amended): after every handling of a def or an anonymous expression
\* whose module was added to the JIT the current module is a fresh empty one
\* (and the JIT holds the definition of the def); a successful extern leaves
\* its declaration in the current module, which is not transferred; the
\* module is empty when the dispatch loop starts.
C6_FreshModuleAfterTransfer ==
    /\ (handled = "main" /\ pc = "loop") => TheModule = EmptyModule
    /\ (handled \in Handlers /\ Happened(trace, "addModule"))
       => /\ TheModule = EmptyModule
          /\ Happened(trace, "InitializeModule")
          /\ handled = "HandleDefinition" => ParsedName(trace) \in JITDefs(TheJIT)
    /\ (handled = "HandleExtern" /\ Happened(trace, "registered"))
       => /\ ~Happened(trace, "addModule")
          /\ ~Happened(trace, "InitializeModule")
          /\ TheModule.live
          /\ ParsedName(trace) \in DOMAIN TheModule.fns

C6_Witness ==
    /\ handled = "HandleExtern"
    /\ Happened(trace, "registered")
    /\ TheModule # EmptyModule
    /\ JITDefs(TheJIT) # {}

\* C7 (as claimed): in one handling parse, lowering, transfer and installation
\* of the fresh module happen in this order, and when the fresh module is
\* installed no token of the next construct has been read from the lexer;
\* no token at all has been read when the first module is installed.
C7_NoTokenBeforeInstall ==
    /\ (handled = "main" /\ Happened(trace, "InitializeModule"))
       => trace[IndexOf(trace, "InitializeModule")].ntok = 0
    /\ (handled \in Handlers /\ Happened(trace, "InitializeModule"))
       => /\ InOrder(trace, TransferSteps)
          /\ trace[IndexOf(trace, "InitializeModule")].ntok = ntok
                => CurTok \in {";", "tok_eof"}

\* C7 (amended): in one handling parse, lowering, transfer and installation of
\* the fresh module happen in this order, and no token is read between the
\* end of the parse and the installation: the one token read past the
\* construct is the parser's look-ahead, read before the parse ended.  The
\* first token of the input is read before the first module is installed.
C7_LookaheadBeforeInstall ==
    /\ (handled = "main" /\ Happened(trace, "InitializeModule"))
       => /\ Happened(trace, "getNextToken")
          /\ IndexOf(trace, "getNextToken") < IndexOf(trace, "InitializeModule")
          /\ trace[IndexOf(trace, "InitializeModule")].ntok = 1
    /\ handled \in Handlers => InOrder(trace, TransferSteps)
    /\ (handled \in Handlers /\ Happened(trace, "InitializeModule"))
       => /\ \A j \in 1..Len(TransferSteps) :
                trace[IndexOf(trace, TransferSteps[j])].ntok = ntok

C7_Witness ==
    /\ handled = "HandleDefinition"
    /\ Happened(trace, "InitializeModule")
    /\ trace[IndexOf(trace, "InitializeModule")].ntok = ntok
    /\ CurTok \notin {";", "tok_eof"}

\* C8: getFunction returns the function of the current module when there is
\* one, else a declaration made from the registry's prototype when one is
\* registered, else fails: a name that was registered before the handling
\* never fails to resolve, and a name that fails is in neither place and
\* makes the lowering fail with the unknown-function diagnostic.
C8_Resolver ==
    [][/\ \A i \in EventsNamed(trace', "getFunction") :
             /\ trace'[i].name \in DOMAIN TheModule.fns => trace'[i].from = "module"
             /\ trace'[i].name \in DOMAIN FunctionProtos => trace'[i].from # "nowhere"
             /\ trace'[i].from = "registry"
                   => /\ trace'[i].name \notin DOMAIN TheModule.fns
                      /\ trace'[i].name \in DOMAIN FunctionProtos'
             /\ trace'[i].from = "nowhere"
                   => /\ trace'[i].name \notin DOMAIN TheModule.fns
                      /\ trace'[i].name \notin DOMAIN FunctionProtos'
                      /\ Happened(trace', "lowering failed")
                      /\ \/ Logged(trace', "Unknown function referenced")
                         \/ Logged(trace', "Unkown unary operator")
       /\ Logged(trace', "Unknown function referenced")
             => \E i \in EventsNamed(trace', "getFunction") : trace'[i].from = "nowhere"
      ]_vars

C8_Witness ==
    /\ handled = "HandleTopLevelExpression"
    /\ \E i \in EventsNamed(trace, "getFunction") :
          trace[i].from = "registry" /\ trace[i].name = <<"f">>
    /\ Happened(trace, "invoke")

\* C9: the registry maps each name to the prototype most recently handed to
\* the lowering under that name, by an extern or a def (the wrapped anonymous
\* expression included); prototypes of other names are untouched.
C9_RegistryMostRecent ==
    pc # "crashed" =>
        /\ DOMAIN FunctionProtos = DOMAIN lowerings
        /\ \A n \in DOMAIN lowerings : FunctionProtos[n] = lowerings[n][Len(lowerings[n])]

C9_Witness ==
    /\ pc # "crashed"
    /\ \E n \in DOMAIN lowerings :
          /\ Len(lowerings[n]) > 1
          /\ lowerings[n][1] # lowerings[n][Len(lowerings[n])]
          /\ FunctionProtos[n] # lowerings[n][1]
    /\ Cardinality(DOMAIN FunctionProtos) > 1

\* the first index at or after i that holds no white space
RECURSIVE FirstNonSpace(_)
FirstNonSpace(i) ==
    IF i > Len(input) \/ ~isspace(input[i]) THEN i ELSE FirstNonSpace(i + 1)

\* the last index of the run of letters and digits that holds index i
RECURSIVE RunEnd(_)
RunEnd(i) == IF i < Len(input) /\ isalnum(input[i + 1]) THEN RunEnd(i + 1) ELSE i

\* where the token the last getNextToken() returned starts in the input
TokStart ==
    IF isspace(prevLex.LastChar) THEN FirstNonSpace(prevLex.ipos + 1) ELSE prevLex.ipos

OnLetter ==
    /\ pc = "lex" /\ ntok > 0
    /\ prevLex.LastChar # EOF
    /\ TokStart <= Len(input)
    /\ isalpha(input[TokStart])

\* the keyword table of the claim
ClaimedKeyword(s) ==
    CASE s = s_def    -> "tok_def"
      [] s = s_extern -> "tok_extern"
      [] s = s_if     -> "tok_if"
      [] s = s_then   -> "tok_then"
      [] s = s_else   -> "tok_else"
      [] s = s_for    -> "tok_for"
      [] s = s_in     -> "tok_in"
      [] s = s_binary -> "tok_binary"
      [] s = s_unary  -> "tok_unary"
      [] s = s_var    -> "tok_var"
      [] OTHER        -> "tok_identifier"

\* C10 (as claimed): on a letter the lexer accumulates the maximal run of
\* letters and digits and returns the keyword token of def, extern, if, then,
\* else, for, in, binary, unary, var, and tok_identifier, with the run in
\* IdentifierStr, for every other run.
C10_KeywordTable ==
    OnLetter => /\ IdentifierStr = SubSeq(input, TokStart, RunEnd(TokStart))
                /\ CurTok = ClaimedKeyword(IdentifierStr)


\* the input ends inside a comment: a "#" with no line terminator after it
EndsInComment ==
    \E i \in 1..Len(input) :
        /\ input[i] = "#"
        /\ \A j \in i..Len(input) : input[j] \notin {"\n", "\r"}

\* C11: once getNextToken() has returned tok_eof, every later call returns
\* tok_eof again and leaves the lexer where it was: no character is read,
\* CurTok stays tok_eof; this holds as well when the input ended inside a
\* comment.
C11_EofAbsorbing ==
    [][(pc = "lex" /\ CurTok = "tok_eof")
       => /\ CurTok' = "tok_eof"
          /\ LastChar' = EOF /\ LastChar = EOF
          /\ ipos' = ipos]_vars

C11_Witness ==
    /\ pc = "lex"
    /\ EndsInComment
    /\ prevLex.CurTok = "tok_eof"
    /\ CurTok = "tok_eof"
    /\ ntok = MaxTokens


-----------------------------------------------------------------------------
(* Programs of constructs that fail to parse or to lower, of operator      *)
(* definitions and of calls without arguments: up to MaxSyntaxConstructs   *)
(* of the texts below, run by the same main() and MainLoop().              *)

MaxSyntaxConstructs == 2

\* def 
S_def_alone == <<"d","e","f"," ">>
\* (1;
S_paren_open == <<"(","1",";">>
\* f(1;
S_call_open == <<"f","(","1",";">>
\* if 1 1;
S_if_no_then == <<"i","f"," ","1"," ","1",";">>
\* for x 1;
S_for_no_eq == <<"f","o","r"," ","x"," ","1",";">>
\* extern (;
S_extern_bad == <<"e","x","t","e","r","n"," ","(",";">>
\* y;
S_unknown_var == <<"y",";">>
\* def f(x) y;
S_def_unknown_var == <<"d","e","f"," ","f","(","x",")"," ","y",";">>
\* 1 = 2;
S_assign_number == <<"1"," ","="," ","2",";">>
\* g(1,2);
S_call_g2 == <<"g","(","1",",","2",")",";">>
\* def f(x) x = 1;
S_def_assign == <<"d","e","f"," ","f","(","x",")"," ","x"," ","="," ","1",
    ";">>
\* def f(x) z = 1;
S_def_assign_unbound == <<"d","e","f"," ","f","(","x",")"," ","z"," ","="," ",
    "1",";">>
\* def binary | 5 (a b) if a then 1 else if b then 1 else 0;
S_def_or == <<"d","e","f"," ","b","i","n","a","r","y"," ","|"," ","5"," ","(",
    "a"," ","b",")"," ","i","f"," ","a"," ","t","h","e","n"," ","1"," ","e",
    "l","s","e"," ","i","f"," ","b"," ","t","h","e","n"," ","1"," ","e","l",
    "s","e"," ","0",";">>
\* 0 | 1;
S_or == <<"0"," ","|"," ","1",";">>
\* def binary @ (a b) a;
S_def_binary_noprec == <<"d","e","f"," ","b","i","n","a","r","y"," ","@"," ",
    "(","a"," ","b",")"," ","a",";">>
\* def binary @ 500 (a b) a;
S_def_binary_500 == <<"d","e","f"," ","b","i","n","a","r","y"," ","@"," ","5",
    "0","0"," ","(","a"," ","b",")"," ","a",";">>
\* f();
S_call_empty == <<"f","(",")",";">>
\* extern f();
S_extern_f0 == <<"e","x","t","e","r","n"," ","f","(",")",";">>

SyntaxTemplates ==
    <<S_def_alone, T_def_bad, S_paren_open, S_call_open, S_if_no_then, S_for_no_eq,
      S_extern_bad, S_unknown_var, S_def_unknown_var, S_assign_number, T_call_h, T_unary,
      T_extern_g, S_call_g2, S_def_assign, S_def_assign_unbound, T_number, S_def_or, S_or,
      S_def_binary_noprec, S_def_binary_500, S_call_empty, S_extern_f0>>

SyntaxPrograms == TextsOf(SyntaxTemplates, <<>>, MaxSyntaxConstructs)

SyntaxInit ==
    /\ input \in SyntaxPrograms
    /\ pc = "start"
    /\ InitGlobals

SyntaxSpec == SyntaxInit /\ [][Next]_vars

\* the input starts with the text T
StartsWith(T) == Len(input) >= Len(T) /\ SubSeq(input, 1, Len(T)) = T

\* the state in which MainLoop() is entered: the first construct is handled next
AtFirstConstruct == handled = "main" /\ pc = "loop"


-----------------------------------------------------------------------------
(* Diagnostics *)

AllHandlers == {"HandleDefinition", "HandleExtern", "HandleTopLevelExpression"}

\* C12: a handling whose parse failed wrote exactly one LogError line, got no
\* node, read exactly one more token after the failure and returned to the
\* dispatch loop; on the input "def" the line is the one about the expected
\* function name, the token skipped to is tok_eof, and the loop ends without
\* another line.
C12_ParseFailure ==
    /\ (handled \in AllHandlers /\ Happened(trace, "parse failed"))
       => /\ Cardinality(EventsNamed(trace, "LogError")) = 1
          /\ IndexOf(trace, "LogError") < IndexOf(trace, "parse failed")
          /\ ~Happened(trace, "parsed")
          /\ ~Happened(trace, "FunctionAST::codegen")
          /\ ~Happened(trace, "PrototypeAST::codegen")
          /\ Cardinality(EventsNamed(trace, "skip token")) = 1
          /\ trace[Len(trace)].ev = "skip token"
          /\ trace[Len(trace)].ntok = trace[IndexOf(trace, "parse failed")].ntok + 1
          /\ ntok = trace[Len(trace)].ntok
          /\ pc = "loop"
    /\ (input = S_def_alone /\ handled = "HandleDefinition")
       => /\ Happened(trace, "parse failed")
          /\ Logged(trace, "Expected function name in prototype")
          /\ CurTok = "tok_eof"
    /\ (input = S_def_alone /\ handled = "eof")
       => (pc = "done" /\ trace = <<>>)

C12_Witness ==
    /\ input = S_def_alone
    /\ handled = "HandleDefinition"
    /\ Happened(trace, "skip token")
    /\ Logged(trace, "Expected function name in prototype")


ParsedProto(tr) == tr[IndexOf(tr, "parsed")].proto
ParsedBody(tr)  == tr[IndexOf(tr, "parsed")].body
ArgsOf(P) == {P.Args[i] : i \in 1..Len(P.Args)}

\* the handling lowered a function whose body is the variable of a name that
\* is no parameter of it
UnboundVariableBody ==
    /\ handled \in Handlers
    /\ Happened(trace, "parsed")
    /\ ParsedBody(trace).kind = "Variable"
    /\ ParsedBody(trace).Name \notin ArgsOf(ParsedProto(trace))

\* the lowering of the handling failed, the function it had begun was erased
\* from the current module, nothing went to the JIT, and MainLoop goes on
\* with the token the parse left
FailedCleanly ==
    /\ pc = "loop"
    /\ Happened(trace, "lowering failed")
    /\ ~Happened(trace, "emitted")
    /\ Happened(trace, "erased")
    /\ ParsedName(trace) \notin DOMAIN TheModule.fns
    /\ ~Happened(trace, "createResourceTracker")
    /\ ~Happened(trace, "addModule")
    /\ ~Happened(trace, "addModule failed")
    /\ ~Happened(trace, "skip token")
    /\ ntok = trace[IndexOf(trace, "parsed")].ntok

\* C13 (as claimed): lowering a variable that has no slot in NamedValues
\* reports "Unknown variable name" and fails: the function is not emitted
\* and the driver goes on.
C13_UnknownVariableFails ==
    UnboundVariableBody
    => (Logged(trace, "Unknown variable name") /\ FailedCleanly)

\* the handling lowered a function whose body is an assignment
AssignBody ==
    /\ handled \in Handlers
    /\ Happened(trace, "parsed")
    /\ ParsedBody(trace).kind = "Binary"
    /\ ParsedBody(trace).Op = "="

\* C14 (as claimed): lowering an assignment whose left side is no variable
\* reports "destination of '=' must be a variable" and fails; in a function
\* whose name is lowered for the first time, with a number on the right, the
\* function is emitted when the left side is one of its parameters, and the
\* lowering fails when it is a variable without a slot.
C14_AssignDestination ==
    /\ (AssignBody /\ ParsedBody(trace).LHS.kind # "Variable")
       => (Logged(trace, "destination of '=' must be a variable") /\ FailedCleanly)
    /\ (AssignBody /\ ParsedBody(trace).LHS.kind = "Variable"
           /\ ParsedBody(trace).RHS.kind = "Number"
           /\ Len(lowerings[ParsedName(trace)]) = 1)
       => IF ParsedBody(trace).LHS.Name \in ArgsOf(ParsedProto(trace))
          THEN Happened(trace, "emitted") /\ Happened(trace, "lowered")
          ELSE Logged(trace, "Unknown variable name") /\ FailedCleanly

SemanticDiagnostics ==
    {"Unknown function referenced", "Incorrect # arguments passed",
     "Unkown unary operator", "Unknown variable name",
     "destination of '=' must be a variable"}

\* C15 (as claimed): a handling whose lowering reported an unknown function,
\* a wrong number of arguments, an unknown operator, an unknown variable or a
\* bad assignment destination failed cleanly: the function was erased,
\* nothing went to the JIT, the result was null and no token was read.
C15_LoweringFailureIsClean ==
    (handled \in Handlers /\ \E m \in SemanticDiagnostics : Logged(trace, m))
    => FailedCleanly


-----------------------------------------------------------------------------
(* Operator definitions and calls *)

\* C17 (as claimed): the handling of "def binary | 5 (a b) ..." read from the
\* input parses and lowers the function binary| and leaves "|" in the
\* precedence table at 5; a following "0 | 1" is then an expression that
\* calls binary|.
C17_OperatorRegistered ==
    [][(AtFirstConstruct /\ StartsWith(S_def_or))
       => /\ handled' = "HandleDefinition"
          /\ Happened(trace', "parsed")
          /\ ParsedName(trace') = Append(s_binary, "|")
          /\ isBinaryOp(ParsedProto(trace'))
          /\ Happened(trace', "addModule")
          /\ "|" \in DOMAIN BinopPrecedence'
          /\ BinopPrecedence'["|"] = 5]_vars

\* C18 (as claimed): a binary prototype without a precedence literal parses
\* to a prototype of precedence 30, one with a literal within 1..100 to a
\* prototype of that precedence, and one with a literal outside 1..100 fails
\* to parse with one error.
C18_PrecedenceLiteralOptional ==
    [][/\ (AtFirstConstruct /\ StartsWith(S_def_binary_noprec))
          => /\ Happened(trace', "parsed")
             /\ ParsedName(trace') = Append(s_binary, "@")
             /\ ParsedProto(trace').Precedence = 30
       /\ (AtFirstConstruct /\ StartsWith(S_def_or))
          => /\ Happened(trace', "parsed")
             /\ ParsedProto(trace').Precedence = 5
       /\ (AtFirstConstruct /\ StartsWith(S_def_binary_500))
          => /\ Happened(trace', "parse failed")
             /\ Cardinality(EventsNamed(trace', "LogError")) = 1]_vars

\* C19 (as claimed): the tokens f ( ) parse to the call of f without
\* arguments; the parse reads these three tokens and the one after them.
C19_EmptyArgumentList ==
    [][(AtFirstConstruct /\ StartsWith(S_call_empty))
       => /\ handled' = "HandleTopLevelExpression"
          /\ Happened(trace', "parsed")
          /\ ParsedBody(trace') = CallExprAST(<<"f">>, <<>>)
          /\ trace'[IndexOf(trace', "parsed")].ntok = 4
          /\ CurTok' = ";"]_vars


-----------------------------------------------------------------------------
(* Programs with one function whose body is a chain of up to MaxOperators  *)
(* binary operators over its parameters, after an optional extern.         *)

MaxOperators == 3

Operators == <<"=", "<", "+", "-", "*", "/", ">">>
Operands  == <<"x", "y", "z", "w", "u", "v">>

\* def f(x y z w u v) 
T_def_f6 == <<"d","e","f"," ","f","(","x"," ","y"," ","z"," ","w"," ","u"," ","v",")"," ">>

\* the chains of exactly k operators: x op y op z ...
RECURSIVE ChainsOf(_)
ChainsOf(k) ==
    IF k = 0 THEN {<<Operands[1]>>}
    ELSE {e \o <<Operators[i], Operands[k + 1]>> :
             e \in ChainsOf(k - 1), i \in 1..Len(Operators)}

Chains == UNION {ChainsOf(k) : k \in 1..MaxOperators}

PrecPrograms ==
    {pre \o T_def_f6 \o e \o <<";">> : pre \in {<<>>, T_extern_g}, e \in Chains}

PrecInit ==
    /\ input \in PrecPrograms
    /\ pc = "start"
    /\ InitGlobals

PrecSpec == PrecInit /\ [][Next]_vars

\* the chain of the program, its operators and its operands
Chain ==
    SubSeq(input, (IF StartsWith(T_extern_g) THEN Len(T_extern_g) ELSE 0) + Len(T_def_f6) + 1,
           Len(input) - 1)
ChainOps == [k \in 1..(Len(Chain) \div 2) |-> Chain[2 * k]]
ChainOperands == [k \in 1..(Len(Chain) \div 2 + 1) |-> Chain[2 * k - 1]]

\* the operator applied last among the operators lo..hi-1 of the chain under
\* the precedences prec: the rightmost of those of the lowest precedence
LastApplied(prec, lo, hi) ==
    CHOOSE k \in lo..(hi - 1) :
        \A j \in lo..(hi - 1) :
            \/ prec[ChainOps[k]] < prec[ChainOps[j]]
            \/ (prec[ChainOps[k]] = prec[ChainOps[j]] /\ j <= k)

\* the tree of the operands lo..hi of the chain in which an operator of
\* higher precedence binds tighter and equal precedences group to the left
RECURSIVE GroupedTree(_, _, _)
SplitAt(prec, lo, hi, k) ==
    BinaryExprAST(ChainOps[k], GroupedTree(prec, lo, k), GroupedTree(prec, k + 1, hi))

GroupedTree(prec, lo, hi) ==
    IF lo = hi THEN VariableExprAST(<<ChainOperands[lo]>>)
    ELSE SplitAt(prec, lo, hi, LastApplied(prec, lo, hi))

\* C16: a chain x a y b z c w of operators of the precedence table parses to
\* the tree of precedence climbing: higher precedence binds tighter, equal
\* precedences group to the left; the parse stops at the ";" after it.
C16_PrecedenceClimbing ==
    (handled = "HandleDefinition"
        /\ \A k \in DOMAIN ChainOps : ChainOps[k] \in DOMAIN SeedPrecedence)
    => /\ Happened(trace, "parsed")
       /\ ParsedBody(trace) = GroupedTree(SeedPrecedence, 1, Len(ChainOperands))
       /\ trace[IndexOf(trace, "parsed")].ntok = ntok
       /\ CurTok = ";"

\* x+y*z-w was parsed to (x + (y * z)) - w
C16_Witness ==
    /\ handled = "HandleDefinition"
    /\ Chain = <<"x", "+", "y", "*", "z", "-", "w">>
    /\ Happened(trace, "parsed")
    /\ ParsedBody(trace) =
          BinaryExprAST("-",
              BinaryExprAST("+", VariableExprAST(<<"x">>),
                  BinaryExprAST("*", VariableExprAST(<<"y">>), VariableExprAST(<<"z">>))),
              VariableExprAST(<<"w">>))

\* the precedence table of the claim: the seeds, ">" with "<" and "/" with "*"
ClaimedTable == SeedPrecedence @@ (">" :> SeedPrecedence["<"]) @@ ("/" :> SeedPrecedence["*"])

\* C20 (as claimed): when MainLoop() is entered the table maps "=" to 2, "<"
\* to 10, "+" and "-" to 20 and "*" to 40, and ">" and "/" are binary
\* operators of the classes of "<" and "*": a chain with them parses to the
\* tree of precedence climbing, x / y and x > y to Binary nodes.
C20_SeededOperators ==
    /\ AtFirstConstruct
       => /\ {"=", "<", "+", "-", "*"} \subseteq DOMAIN BinopPrecedence
          /\ BinopPrecedence["="] = 2 /\ BinopPrecedence["<"] = 10
          /\ BinopPrecedence["+"] = 20 /\ BinopPrecedence["-"] = 20
          /\ BinopPrecedence["*"] = 40
    /\ handled = "HandleDefinition"
       => /\ Happened(trace, "parsed")
          /\ ParsedBody(trace) = GroupedTree(ClaimedTable, 1, Len(ChainOperands))


-----------------------------------------------------------------------------
(* The value of an expression of the language, computed over the AST: the *)
(* reference the lowered code is compared with.  defs maps the name of a   *)
(* defined function to its parameters and body, env a variable in scope to *)
(* its value.  A function that is not defined is one of the host's         *)
(* (putchard, printd), which return 0.  An assignment stores the value of  *)
(* its right-hand side and has that value.  A for-expression evaluates     *)
(* start once, binds the loop variable to it (hiding an outer variable of  *)
(* that name), then repeats: body, step (1 when omitted), variable :=      *)
(* variable + step, end condition; it ends when the condition is 0,        *)
(* restores the outer variable and has the value 0.                        *)
(***************************************************************************)

Out(v, env, fuel) == [ok |-> TRUE, v |-> v, env |-> env, fuel |-> fuel]
Stuck == [ok |-> FALSE, v |-> Undef, env |-> <<>>, fuel |-> 0]

EvalOperator(Op, a, b) ==
    IF ~a.def \/ ~b.def THEN Undef
    ELSE CASE Op = "+" -> Number(a.n + b.n)
           [] Op = "-" -> Number(a.n - b.n)
           [] Op = "*" -> Number(a.n * b.n)
           [] Op = "<" -> Number(IF a.n < b.n THEN 1 ELSE 0)
           [] OTHER -> Undef

\* the parameters bound to the arguments
Bound(Args, vs) ==
    [n \in {Args[i] : i \in DOMAIN Args} |->
        vs[CHOOSE i \in DOMAIN Args : Args[i] = n /\ \A j \in DOMAIN Args : Args[j] = n => j <= i]]

\* the environment after a for over Name: the outer binding of Name is back
Unshadow(env, outer, Name) ==
    [n \in (DOMAIN env \ {Name}) \cup (DOMAIN outer \cap {Name}) |->
        IF n = Name THEN outer[n] ELSE env[n]]

RECURSIVE Eval(_, _, _, _)
RECURSIVE EvalArgs(_, _, _, _, _, _)
RECURSIVE EvalIter(_, _, _, _)

EvalAssign(Name, R) == IF ~R.ok THEN Stuck ELSE Out(R.v, Put(R.env, Name, R.v), R.fuel)

EvalReturn(B, env) == IF ~B.ok THEN Stuck ELSE Out(B.v, env, B.fuel)

\* A the outcome of the arguments, .v their values
EvalApply(defs, Name, A) ==
    IF ~A.ok THEN Stuck
    ELSE IF Name \notin DOMAIN defs THEN Out(Number(0), A.env, A.fuel)
    ELSE EvalReturn(Eval(defs, defs[Name].Body, Bound(defs[Name].Args, A.v), A.fuel), A.env)

EvalOperands(defs, Op, a, R) ==
    IF ~R.ok THEN Stuck
    ELSE IF Op \in {"+", "-", "*", "<"} THEN Out(EvalOperator(Op, a, R.v), R.env, R.fuel)
    ELSE EvalApply(defs, Append(s_binary, Op), Out(<<a, R.v>>, R.env, R.fuel))

EvalRight(defs, e, L) ==
    IF ~L.ok THEN Stuck ELSE EvalOperands(defs, e.Op, L.v, Eval(defs, e.RHS, L.env, L.fuel))

EvalBranch(defs, e, C) ==
    IF ~C.ok THEN Stuck
    ELSE IF C.v.def /\ C.v.n # 0 THEN Eval(defs, e.Then, C.env, C.fuel)
    ELSE Eval(defs, e.Else, C.env, C.fuel)

EvalArg(defs, Args, i, vs, A) ==
    IF ~A.ok THEN Stuck ELSE EvalArgs(defs, Args, i + 1, Append(vs, A.v), A.env, A.fuel)

EvalArgs(defs, Args, i, vs, env, fuel) ==
    IF i > Len(Args) THEN Out(vs, env, fuel)
    ELSE EvalArg(defs, Args, i, vs, Eval(defs, Args[i], env, fuel))

EvalIterAgain(defs, e, En) ==
    IF ~En.ok THEN Stuck
    ELSE IF En.v.def /\ En.v.n # 0 THEN EvalIter(defs, e, En.env, En.fuel)
    ELSE En

EvalIterEnd(defs, e, St) ==
    IF ~St.ok THEN Stuck
    ELSE EvalIterAgain(defs, e,
             Eval(defs, e.End,
                  [St.env EXCEPT ![e.VarName] = EvalOperator("+", @, St.v)], St.fuel))

EvalIterStep(defs, e, B) ==
    IF ~B.ok THEN Stuck
    ELSE EvalIterEnd(defs, e, IF e.Step = Null THEN Out(Number(1), B.env, B.fuel)
                              ELSE Eval(defs, e.Step, B.env, B.fuel))

EvalIter(defs, e, env, fuel) == EvalIterStep(defs, e, Eval(defs, e.Body, env, fuel))

EvalForDone(e, outer, L) ==
    IF ~L.ok THEN Stuck ELSE Out(Number(0), Unshadow(L.env, outer, e.VarName), L.fuel)

EvalFor(defs, e, S) ==
    IF ~S.ok THEN Stuck
    ELSE EvalForDone(e, S.env, EvalIter(defs, e, Put(S.env, e.VarName, S.v), S.fuel))

Eval(defs, e, env, fuel) ==
    IF fuel = 0 THEN Stuck
    ELSE CASE e.kind = "Number" ->
                Out(IF e.Val.frac = <<>> THEN Number(e.Val.whole) ELSE Undef, env, fuel - 1)
           [] e.kind = "Variable" ->
                Out(IF e.Name \in DOMAIN env THEN env[e.Name] ELSE Undef, env, fuel - 1)
           [] e.kind = "Binary" ->
                IF e.Op = "=" THEN EvalAssign(e.LHS.Name, Eval(defs, e.RHS, env, fuel - 1))
                ELSE EvalRight(defs, e, Eval(defs, e.LHS, env, fuel - 1))
           [] e.kind = "Unary" ->
                EvalApply(defs, Append(s_unary, e.Opcode),
                          EvalArgs(defs, <<e.Operand>>, 1, <<>>, env, fuel - 1))
           [] e.kind = "Call" ->
                EvalApply(defs, e.Callee, EvalArgs(defs, e.Args, 1, <<>>, env, fuel - 1))
           [] e.kind = "If" -> EvalBranch(defs, e, Eval(defs, e.Cond, env, fuel - 1))
           [] e.kind = "For" -> EvalFor(defs, e, Eval(defs, e.Start, env, fuel - 1))

\* the value of the top-level expression e under the definitions made so far
Value(e) == Eval(definitions, e, <<>>, 4 * MaxSteps)

\* e is built from numbers, variables, + - * <, if/then/else and calls of
\* defined functions
RECURSIVE Pure(_)
Pure(e) ==
    CASE e.kind \in {"Number", "Variable"} -> TRUE
      [] e.kind = "Binary" -> e.Op \in {"+", "-", "*", "<"} /\ Pure(e.LHS) /\ Pure(e.RHS)
      [] e.kind = "If" -> Pure(e.Cond) /\ Pure(e.Then) /\ Pure(e.Else)
      [] e.kind = "Call" -> /\ e.Callee \in DOMAIN definitions
                            /\ Len(e.Args) = Len(definitions[e.Callee].Args)
                            /\ \A i \in DOMAIN e.Args : Pure(e.Args[i])
      [] OTHER -> FALSE

-----------------------------------------------------------------------------
(* Programs that evaluate: a library (an extern, sq and max), one more     *)
(* definition, and a call of it on arguments from 0..MaxArg, or a          *)
(* top-level expression; and the program E_loopsum alone.                  *)

MaxArg == 3

\* extern g(x); def sq(x) x * x; def max(a b) if a < b then b else a;
E_lib ==
    <<"e","x","t","e","r","n"," ","g","(","x",")",";"," ","d","e","f"," ","s","q","(","x",
      ")"," ","x"," ","*"," ","x",";"," ","d","e","f"," ","m","a","x","(","a"," ","b",")",
      " ","i","f"," ","a"," ","<"," ","b"," ","t","h","e","n"," ","b"," ","e","l","s","e",
      " ","a",";">>
\* def fib(n) if n < 2 then n else fib(n-1) + fib(n-2);
E_fib ==
    <<"d","e","f"," ","f","i","b","(","n",")"," ","i","f"," ","n"," ","<"," ","2"," ","t",
      "h","e","n"," ","n"," ","e","l","s","e"," ","f","i","b","(","n","-","1",")"," ","+",
      " ","f","i","b","(","n","-","2",")",";">>
\* def pick(a b) if a - b then a * 2 else if b then 1 + b else 7;
E_pick ==
    <<"d","e","f"," ","p","i","c","k","(","a"," ","b",")"," ","i","f"," ","a"," ","-"," ",
      "b"," ","t","h","e","n"," ","a"," ","*"," ","2"," ","e","l","s","e"," ","i","f"," ",
      "b"," ","t","h","e","n"," ","1"," ","+"," ","b"," ","e","l","s","e"," ","7",";">>
\* def mix(a b) a - b - 1 + b * 2 < 9 - a * a;
E_mix ==
    <<"d","e","f"," ","m","i","x","(","a"," ","b",")"," ","a"," ","-"," ","b"," ","-"," ",
      "1"," ","+"," ","b"," ","*"," ","2"," ","<"," ","9"," ","-"," ","a"," ","*"," ","a",
      ";">>
\* def nest(a b) sq(max(a, b)) - max(sq(a), b + 1) * (if sq(a) < 4 then 1 else a);
E_nest ==
    <<"d","e","f"," ","n","e","s","t","(","a"," ","b",")"," ","s","q","(","m","a","x","(",
      "a",","," ","b",")",")"," ","-"," ","m","a","x","(","s","q","(","a",")",","," ","b",
      " ","+"," ","1",")"," ","*"," ","(","i","f"," ","s","q","(","a",")"," ","<"," ","4",
      " ","t","h","e","n"," ","1"," ","e","l","s","e"," ","a",")",";">>
\* def sum(n s) (for i = 1, i < n in s = s * 10 + i) + s;
E_sum ==
    <<"d","e","f"," ","s","u","m","(","n"," ","s",")"," ","(","f","o","r"," ","i"," ","=",
      " ","1",","," ","i"," ","<"," ","n"," ","i","n"," ","s"," ","="," ","s"," ","*"," ",
      "1","0"," ","+"," ","i",")"," ","+"," ","s",";">>
\* def by(n s) (for i = s, i < n, 2 in s = s * 10 + i) + s * 10 + n;
E_by ==
    <<"d","e","f"," ","b","y","(","n"," ","s",")"," ","(","f","o","r"," ","i"," ","="," ",
      "s",","," ","i"," ","<"," ","n",","," ","2"," ","i","n"," ","s"," ","="," ","s"," ",
      "*"," ","1","0"," ","+"," ","i",")"," ","+"," ","s"," ","*"," ","1","0"," ","+"," ",
      "n",";">>
\* def step(n s) (for i = 0, i < n, s = s + 1 in n = n - 1) + s * 10 + n;
E_step ==
    <<"d","e","f"," ","s","t","e","p","(","n"," ","s",")"," ","(","f","o","r"," ","i"," ",
      "="," ","0",","," ","i"," ","<"," ","n",","," ","s"," ","="," ","s"," ","+"," ","1",
      " ","i","n"," ","n"," ","="," ","n"," ","-"," ","1",")"," ","+"," ","s"," ","*"," ",
      "1","0"," ","+"," ","n",";">>
\* def end(n s) (for i = 0, (s = s * 10 + i) < n in 0) + s;
E_end ==
    <<"d","e","f"," ","e","n","d","(","n"," ","s",")"," ","(","f","o","r"," ","i"," ","=",
      " ","0",","," ","(","s"," ","="," ","s"," ","*"," ","1","0"," ","+"," ","i",")"," ",
      "<"," ","n"," ","i","n"," ","0",")"," ","+"," ","s",";">>
\* def shadow(i s) (for i = i + 1, i < 3 in s = s * 10 + i) + s * 10 + i;
E_shadow ==
    <<"d","e","f"," ","s","h","a","d","o","w","(","i"," ","s",")"," ","(","f","o","r"," ",
      "i"," ","="," ","i"," ","+"," ","1",","," ","i"," ","<"," ","3"," ","i","n"," ","s",
      " ","="," ","s"," ","*"," ","1","0"," ","+"," ","i",")"," ","+"," ","s"," ","*"," ",
      "1","0"," ","+"," ","i",";">>
\* def inner(n s) (for i = 0, i < n in for i = 7, i < 9 in s = s * 10 + i) + s;
E_inner ==
    <<"d","e","f"," ","i","n","n","e","r","(","n"," ","s",")"," ","(","f","o","r"," ","i",
      " ","="," ","0",","," ","i"," ","<"," ","n"," ","i","n"," ","f","o","r"," ","i"," ",
      "="," ","7",","," ","i"," ","<"," ","9"," ","i","n"," ","s"," ","="," ","s"," ","*",
      " ","1","0"," ","+"," ","i",")"," ","+"," ","s",";">>
\* def cond(n s) if n then (for i = 0, i < n in s = s + (if i < 2 then 1 else 5)) + s else s;
E_cond ==
    <<"d","e","f"," ","c","o","n","d","(","n"," ","s",")"," ","i","f"," ","n"," ","t","h",
      "e","n"," ","(","f","o","r"," ","i"," ","="," ","0",","," ","i"," ","<"," ","n"," ",
      "i","n"," ","s"," ","="," ","s"," ","+"," ","(","i","f"," ","i"," ","<"," ","2"," ",
      "t","h","e","n"," ","1"," ","e","l","s","e"," ","5",")",")"," ","+"," ","s"," ","e",
      "l","s","e"," ","s",";">>
\* fib(10);
E_fib10 ==
    <<"f","i","b","(","1","0",")",";">>
\* 1 + 2 * 3 - 4 < sq(2) - max(1, 0);
E_arith ==
    <<"1"," ","+"," ","2"," ","*"," ","3"," ","-"," ","4"," ","<"," ","s","q","(","2",")",
      " ","-"," ","m","a","x","(","1",","," ","0",")",";">>
\* if 2 < 1 then 3 else if 0 then 4 else sq(3);
E_if ==
    <<"i","f"," ","2"," ","<"," ","1"," ","t","h","e","n"," ","3"," ","e","l","s","e"," ",
      "i","f"," ","0"," ","t","h","e","n"," ","4"," ","e","l","s","e"," ","s","q","(","3",
      ")",";">>
\* for i = 1, i < 3 in 7;
E_for ==
    <<"f","o","r"," ","i"," ","="," ","1",","," ","i"," ","<"," ","3"," ","i","n"," ","7",
      ";">>
\* def loopsum(n) var s = 0 in (for i = 1, i < n+1, 1.0 in s = s + i) + s; loopsum(10);
E_loopsum ==
    <<"d","e","f"," ","l","o","o","p","s","u","m","(","n",")"," ","v","a","r"," ","s"," ",
      "="," ","0"," ","i","n"," ","(","f","o","r"," ","i"," ","="," ","1",","," ","i"," ",
      "<"," ","n","+","1",","," ","1",".","0"," ","i","n"," ","s"," ","="," ","s"," ","+",
      " ","i",")"," ","+"," ","s",";"," ","l","o","o","p","s","u","m","(","1","0",")",";">>

\* the definitions a call is made of, with the name and the number of
\* parameters of the function called
Cases ==
    <<[def |-> E_fib, callee |-> <<"f","i","b">>, arity |-> 1],
      [def |-> E_pick, callee |-> <<"p","i","c","k">>, arity |-> 2],
      [def |-> E_mix, callee |-> <<"m","i","x">>, arity |-> 2],
      [def |-> E_nest, callee |-> <<"n","e","s","t">>, arity |-> 2],
      [def |-> E_sum, callee |-> <<"s","u","m">>, arity |-> 2],
      [def |-> E_by, callee |-> <<"b","y">>, arity |-> 2],
      [def |-> E_step, callee |-> <<"s","t","e","p">>, arity |-> 2],
      [def |-> E_end, callee |-> <<"e","n","d">>, arity |-> 2],
      [def |-> E_shadow, callee |-> <<"s","h","a","d","o","w">>, arity |-> 2],
      [def |-> E_inner, callee |-> <<"i","n","n","e","r">>, arity |-> 2],
      [def |-> E_cond, callee |-> <<"c","o","n","d">>, arity |-> 2]>>

\* the text of the arguments vs[i..]
RECURSIVE ArgsText(_, _)
ArgsText(vs, i) ==
    IF i > Len(vs) THEN <<>>
    ELSE (IF i > 1 THEN <<",">> ELSE <<>>) \o DigitsOf(vs[i]) \o ArgsText(vs, i + 1)

CallText(callee, vs) == callee \o <<"(">> \o ArgsText(vs, 1) \o <<")", ";">>

EvalPrograms ==
    {E_lib \o Cases[c].def \o CallText(Cases[c].callee, SubSeq(vs, 1, Cases[c].arity)) :
        c \in DOMAIN Cases, vs \in [1..2 -> 0..MaxArg]}
    \cup {E_lib \o E_fib \o E_fib10, E_lib \o E_arith, E_lib \o E_if, E_lib \o E_for,
          E_loopsum}

EvalInit ==
    /\ input \in EvalPrograms
    /\ pc = "start"
    /\ InitGlobals

EvalSpec == EvalInit /\ [][Next]_vars

\* the value printed by the top-level expression just handled
Printed == trace[IndexOf(trace, "print")].value

\* a top-level expression was evaluated and its value printed
Evaluated ==
    handled = "HandleTopLevelExpression" /\ Happened(trace, "parsed")
    /\ Happened(trace, "print")

\* the example of the claim: fib(10)
Fib10 == CallExprAST(<<"f","i","b">>, <<NumberExprAST(Num(10))>>)

\* C21: a side-effect-free top-level expression (numbers, + - * <,
\* if/then/else, calls of defined functions whose bodies are of that kind
\* too, arguments in 0..MaxArg) that was lowered, run and printed has the
\* value the reference evaluation of its AST gives; fib(10) gives 55
C21_RoundTrip ==
    (Evaluated /\ Pure(ParsedBody(trace))
     /\ \A n \in DOMAIN definitions : Pure(definitions[n].Body))
    => IF ParsedBody(trace) = Fib10 THEN Printed = Number(55)
       ELSE /\ Value(ParsedBody(trace)).ok
            /\ Printed = Value(ParsedBody(trace)).v

\* fib(10) was evaluated after the definition of fib and 55 was printed
C21_Witness ==
    /\ Evaluated /\ Pure(ParsedBody(trace))
    /\ \A n \in DOMAIN definitions : Pure(definitions[n].Body)
    /\ ParsedBody(trace) = Fib10
    /\ Printed = Number(55)


\* C22: the program E_loopsum is accepted: its def is parsed as a function
\* whose body is a var expression, lowered and added to the JIT, and the
\* call loopsum(10) prints 55
C22_VarFormAccepted ==
    [][/\ (AtFirstConstruct /\ StartsWith(E_loopsum))
          => /\ handled' = "HandleDefinition"
             /\ Happened(trace', "parsed")
             /\ ParsedBody(trace').kind = "Var"
             /\ Happened(trace', "addModule")
             /\ pc' = "loop"
       /\ (StartsWith(E_loopsum) /\ handled' = "HandleTopLevelExpression")
          => /\ Happened(trace', "print")
             /\ trace'[IndexOf(trace', "print")].value = Number(55)]_vars


-----------------------------------------------------------------------------
(* Termination.  The input is finite and ntok counts the tokens read, so   *)
(* MainLoop() ends if every iteration either ends the loop or reads a      *)
(* token.                                                                  *)

\* C23: a dispatch iteration either ends the loop, which it does only at
\* end-of-input and with main() returning 0, or it has read at least one
\* token and the loop continues, or native code that it invoked does not
\* return
C23_DispatchLoopTerminates ==
    [][pc = "loop"
         => /\ pc' \in {"loop", "done", "hung"}
            /\ pc' = "loop" => ntok' > ntok
            /\ pc' = "done" => CurTok = "tok_eof"]_vars

-----------------------------------------------------------------------------
(* The for-expression as it runs.                                          *)

\* e contains a for-expression
RECURSIVE Loops(_)
Loops(e) ==
    CASE e.kind = "For" -> TRUE
      [] e.kind = "Binary" -> Loops(e.LHS) \/ Loops(e.RHS)
      [] e.kind = "Unary" -> Loops(e.Operand)
      [] e.kind = "If" -> Loops(e.Cond) \/ Loops(e.Then) \/ Loops(e.Else)
      [] e.kind = "Call" -> \E i \in DOMAIN e.Args : Loops(e.Args[i])
      [] OTHER -> FALSE

\* the call sum(0, s)
SumOfNone(s) == CallExprAST(<<"s","u","m">>, <<NumberExprAST(Num(0)), NumberExprAST(Num(s))>>)

\* C24: a top-level expression that runs a lowered for-expression prints
\* the value of the reference evaluation, in which start is evaluated once,
\* then the body, then the step (1 when omitted) is added to the induction
\* variable, then the end condition is evaluated on the updated variable;
\* sum(0, s) runs its body once although 1 < 0 is false for the start
\* value, and a for-expression itself has the value 0
C24_ForExecutionOrder ==
    (Evaluated /\ (Loops(ParsedBody(trace))
                   \/ \E n \in DOMAIN definitions : Loops(definitions[n].Body)))
    => /\ Value(ParsedBody(trace)).ok
       /\ Printed = Value(ParsedBody(trace)).v
       /\ ParsedBody(trace).kind = "For" => Printed = Number(0)
       /\ \A s \in 0..MaxArg : ParsedBody(trace) = SumOfNone(s) => Printed = Number(s * 10 + 1)

\* sum(0, 2) was evaluated after the definition of sum and printed 21: the
\* body ran once
C24_Witness ==
    /\ Evaluated
    /\ \E n \in DOMAIN definitions : Loops(definitions[n].Body)
    /\ ParsedBody(trace) = SumOfNone(2)
    /\ Printed = Number(21)

-----------------------------------------------------------------------------
(* The scope of the induction variable.  The events "for", "for body" and  *)
(* "for done" of one for-expression carry its loop slot; the instructions  *)
(* of start have the value ids from the "for" event up to the "for body"   *)
(* event, those of body, step and end condition the ids from there up to   *)
(* the "for done" event.                                                   *)

\* the slots read by the loads of blocks with a value id in lo..hi-1
SlotsLoaded(blocks, lo, hi) ==
    UNION {{blocks[b][k].slot :
               k \in {k \in DOMAIN blocks[b] : /\ blocks[b][k].op = "load"
                                               /\ blocks[b][k].id >= lo
                                               /\ blocks[b][k].id < hi}} :
           b \in DOMAIN blocks}

\* the table T with Name bound to slot
Shadowed(T, Name, slot) ==
    [n \in DOMAIN T \cup {Name} |-> IF n = Name THEN slot ELSE T[n]]

\* the for-expression of the events f ("for"), b ("for body") and d ("for
\* done") kept its scope
ForScoped(f, b, d) ==
    /\ f.slot \notin SlotsLoaded(d.blocks, f.nextVal, b.nextVal)
    /\ b.NamedValues = Shadowed(f.NamedValues, f.name, f.slot)
    /\ d.scope = b.NamedValues
    /\ f.name \in DOMAIN f.NamedValues
       => f.NamedValues[f.name] \notin SlotsLoaded(d.blocks, b.nextVal, d.nextVal)
    /\ d.NamedValues = f.NamedValues

\* C25: for every for-expression lowered successfully, start reads no
\* loop slot of its own for, the body, step and end condition are lowered
\* with the name bound to the loop slot and read no outer binding of the
\* name, and the symbol table after the for is the table before it
C25_ForShadowsAndRestores ==
    \A i \in EventsNamed(trace, "for"), k \in EventsNamed(trace, "for done") :
        trace[k].slot = trace[i].slot
        => \E j \in EventsNamed(trace, "for body") :
              /\ trace[j].slot = trace[i].slot
              /\ i < j /\ j < k
              /\ ForScoped(trace[i], trace[j], trace[k])

\* a for-expression whose name is bound outside was lowered: its start read
\* the outer slot, its body read the loop slot, and the outer binding is
\* back
C25_Witness ==
    /\ \E i \in EventsNamed(trace, "for"), j \in EventsNamed(trace, "for body"),
          k \in EventsNamed(trace, "for done") :
          /\ trace[k].slot = trace[i].slot /\ trace[j].slot = trace[i].slot
          /\ trace[i].name \in DOMAIN trace[i].NamedValues
          /\ trace[i].NamedValues[trace[i].name]
                \in SlotsLoaded(trace[k].blocks, trace[i].nextVal, trace[j].nextVal)
          /\ trace[i].slot \in SlotsLoaded(trace[k].blocks, trace[j].nextVal, trace[k].nextVal)
          /\ trace[k].NamedValues[trace[i].name] = trace[i].NamedValues[trace[i].name]
          /\ trace[k].NamedValues[trace[i].name] # trace[i].slot

-----------------------------------------------------------------------------
(* VarExprAST::codegen alone.  No input text reaches it (the parser builds *)
(* no VarExprAST), so it is applied to var expressions drawn from a small  *)
(* set, inside a function whose symbol table binds some of the names a, b. *)
(* The first event of the trace holds the expression and the table.        *)

MaxBindings == 2

VarNamesUsed == {<<"a">>, <<"b">>}

\* name = init, or name alone
VarBindingsUsed ==
    [Name : VarNamesUsed,
     Init : {Null, NumberExprAST(Num(1)), VariableExprAST(<<"a">>)}]

VarExprs ==
    {VarExprAST(vn, b) :
        vn \in UNION {[1..n -> VarBindingsUsed] : n \in 1..MaxBindings},
        b \in {VariableExprAST(<<"a">>), VariableExprAST(<<"b">>), NumberExprAST(Num(7))}}

\* a is in slot 1 and b in slot 2 where they are bound
VarTables == {[n \in S |-> IF n = <<"a">> THEN 1 ELSE 2] : S \in SUBSET VarNamesUsed}

VarSpecInit ==
    /\ input = <<>>
    /\ pc = "var"
    /\ ipos = 0
    /\ LastChar = " "
    /\ IdentifierStr = <<>>
    /\ NumVal = Num(0)
    /\ CurTok = NUL
    /\ ntok = 0
    /\ prevLex = InitLex
    /\ BinopPrecedence = <<>>
    /\ TheModule = InitializeModule
    /\ FunctionProtos = <<>>
    /\ NamedValues \in VarTables
    /\ TheJIT = NullJIT
    /\ nextRT = 1
    /\ handled = "none"
    /\ \E e \in VarExprs : trace = <<[ev |-> "var", e |-> e, NamedValues |-> NamedValues]>>
    /\ lowerings = <<>>
    /\ definitions = <<>>

\* the state of the lowering inside a function with two slots in use
VarState(ub) ==
    [LoweringState(World, ub) EXCEPT !.nextSlot = 3, !.blocks = <<<<>>>>, !.cur = 1]

\* the outcome R of VarExprAST::codegen on the expression of the trace
VarLowered(R) ==
    /\ NamedValues' = R.G.NamedValues
    /\ trace' = trace \o R.G.ev
                \o <<[ev |-> "var done", val |-> R.val, v |-> R.v, blocks |-> R.G.blocks]>>
    /\ pc' = IF R.G.crashed THEN "crashed" ELSE "lowered"
    /\ handled' = "VarExprAST::codegen"
    /\ UNCHANGED <<input, lexvars, BinopPrecedence, TheModule, FunctionProtos, TheJIT,
                   nextRT, lowerings, definitions>>

VarLower ==
    /\ pc = "var"
    /\ \E ub \in UBOutcomes : VarLowered(VarExprAST_codegen(VarState(ub), trace[1].e))

VarSpec == VarSpecInit /\ [][VarLower]_vars

\* the slot T binds Name to, NullSlot if it binds none
Binding(T, Name) == IF Name \in DOMAIN T THEN T[Name] ELSE NullSlot

-----------------------------------------------------------------------------
(* The symbol table when a function body starts being lowered: the event   *)
(* "body" holds the prototype of the definition and the table.             *)

\* the formal parameter names of the prototype P
Formals(P) == {P.Args[k] : k \in DOMAIN P.Args}

\* C27: when the body of a function starts being lowered the symbol table
\* binds exactly the formal parameters of the definition, each to a stack
\* slot of its own
C27_BodyStartsWithFormals ==
    \A i \in EventsNamed(trace, "body") :
        /\ DOMAIN trace[i].NamedValues = Formals(trace[i].proto)
        /\ \A n \in DOMAIN trace[i].NamedValues : trace[i].NamedValues[n] # NullSlot
        /\ \A n, m \in DOMAIN trace[i].NamedValues :
              n # m => trace[i].NamedValues[n] # trace[i].NamedValues[m]

-----------------------------------------------------------------------------
(* A definition whose lowering fails.                                      *)

\* C28: a def whose lowering failed (FnAST->codegen() returned null) leaves
\* the prototype registry and the precedence table as they were before it
C28_FailedDefRegistersNothing ==
    [][(handled' = "HandleDefinition" /\ Happened(trace', "lowering failed"))
       => /\ FunctionProtos' = FunctionProtos
          /\ BinopPrecedence' = BinopPrecedence]_vars

-----------------------------------------------------------------------------
(* The functions of the current module and the prototype registry:         *)
(* programs that declare, define and call the one name f with zero, one    *)
(* and two parameters.                                                     *)

\* f(1, 2);
D_call_f2 == <<"f","(","1",","," ","2",")",";">>

DeclTemplates == <<T_extern_f2, S_extern_f0, T_def_f, T_call_f, D_call_f2>>

DeclPrograms == TextsOf(DeclTemplates, <<>>, MaxConstructs)

DeclInit ==
    /\ input \in DeclPrograms
    /\ pc = "start"
    /\ InitGlobals

DeclSpec == DeclInit /\ [][Next]_vars

\* C29: between dispatch iterations a function of the current module and
\* the prototype registered under its name have the same number of
\* parameters
C29_ModuleAgreesWithRegistry ==
    pc = "loop"
    => \A f \in DOMAIN TheModule.fns \cap DOMAIN FunctionProtos :
          Len(TheModule.fns[f].Args) = Len(FunctionProtos[f].Args)

-----------------------------------------------------------------------------
(* Function bodies in the current module.                                  *)

\* C30: when a dispatch iteration starts no function of the current module
\* has a body, and the lowering of a def has never found a body under its
\* name ("Function cannot be redefined." was not logged)
C30_ModuleHoldsDeclarationsOnly ==
    /\ pc = "loop" => \A f \in DOMAIN TheModule.fns : ~TheModule.fns[f].hasBody
    /\ ~Logged(trace, "Function cannot be redefined.")

\* a def was lowered and its module went to the JIT, a later def failed
\* and its function was erased: the next iteration starts with no body in
\* the current module
C30_Witness ==
    /\ pc = "loop"
    /\ handled = "HandleDefinition"
    /\ Happened(trace, "erased")
    /\ definitions # <<>>
    /\ \A f \in DOMAIN TheModule.fns : ~TheModule.fns[f].hasBody

=============================================================================
